---- MODULE Spec2Model ----
(***************************************************************************)
(* A model of linear-mcp: the identifier resolver                          *)
(* (services/identifier-resolver.ts); the retry wrapper, the method        *)
(* registry and the text chunking of the service layer                     *)
(* (services/linear-service.ts); the webhook handler (handlers/webhook.ts);*)
(* the issue parser (utils/issue-parser.ts); the registry of SSE           *)
(* connections (services/sse-manager.ts, handlers/stream.ts); and the      *)
(* credentials store (auth/credentials.ts).                                *)
(*                                                                         *)
(* Strings are sequences of one-character strings, so that the regular     *)
(* expression test, toLowerCase, split, parseInt and template              *)
(* concatenation are computed and not assumed.  A literal piece of a       *)
(* message template is kept as one element of such a sequence.             *)
(* Time is counted in seconds (the source counts milliseconds).            *)
(***************************************************************************)
EXTENDS Integers, Sequences, FiniteSets, TLC

VARIABLES
    cache,              \* IdentifierResolver.cache: the five maps
    lastCacheRefresh,   \* IdentifierResolver.lastCacheRefresh
    calls,              \* the resolve calls in progress or finished, by slot
    now,                \* Date.now()
    remote,             \* which data the Linear API holds at the moment
    svc,                \* the LinearService method call in progress or finished
    obs,                \* what that call logged and measured (logger, metrics)
    issues,             \* the issues that call created at the API
    args,               \* what a function or a handler outside the resolver was given
    ret,                \* what it returned, or threw, or answered
    sse,                \* SSEManager: the notifications broadcast so far
    awaitingAtClear,    \* history: the calls that were awaiting at the last clearCache
    connections,        \* SSEManager.connections: client ID -> Response
    activeSSEConnections, \* the gauge metrics.activeSSEConnections
    responses,          \* the Response objects of the stream requests made so far
    heartbeatInterval,  \* SSEManager.heartbeatInterval: the timer is set or cleared
    credentialsFile,    \* ~/.linear-mcp/credentials.json
    credOps             \* the credential functions in progress, each with its copy

resolverVars == <<cache, lastCacheRefresh, calls>>
envVars == <<now, remote>>
svcVars == <<svc, obs, issues>>
sseVars == <<connections, activeSSEConnections, responses, heartbeatInterval>>
credVars == <<credentialsFile, credOps>>
otherVars == <<args, ret, sse, awaitingAtClear, sseVars, credVars>>
vars == <<cache, lastCacheRefresh, calls, now, remote, svc, obs, issues,
          args, ret, sse, awaitingAtClear,
          connections, activeSSEConnections, responses, heartbeatInterval,
          credentialsFile, credOps>>

----------------------------------------------------------------------------
(* Strings *)

Lit(s) == <<s>>

Rep(c, n) == [i \in 1..n |-> c]

HexChars == {"0","1","2","3","4","5","6","7","8","9",
             "a","b","c","d","e","f","A","B","C","D","E","F"}

UpperChars == <<"A","B","C","D","E","F","G","H","I","J","K","L","M",
                "N","O","P","Q","R","S","T","U","V","W","X","Y","Z">>
LowerChars == <<"a","b","c","d","e","f","g","h","i","j","k","l","m",
                "n","o","p","q","r","s","t","u","v","w","x","y","z">>

ToLowerChar(c) ==
    IF \E i \in 1..26 : UpperChars[i] = c
    THEN LowerChars[CHOOSE i \in 1..26 : UpperChars[i] = c]
    ELSE c

\* String.prototype.toLowerCase
toLowerCase(s) == [i \in 1..Len(s) |-> ToLowerChar(s[i])]

\* /^[0-9a-f]{8}-[0-9a-f]{4}-[0-9a-f]{4}-[0-9a-f]{4}-[0-9a-f]{12}$/i
HyphenAt == {9, 14, 19, 24}
UuidLen == 36
IsUuid(s) ==
    /\ Len(s) = UuidLen
    /\ \A i \in 1..UuidLen :
          IF i \in HyphenAt THEN s[i] = "-" ELSE s[i] \in HexChars

\* the value JavaScript passes for a parameter that was left out
Undefined == <<"undefined">>
\* a test for undefined alone, which lets the empty string through
FalsyUndefinedOnly(s) == s = Undefined

\* !teamId : undefined and the empty string are falsy
Falsy(s) == s = Undefined \/ s = <<>>

----------------------------------------------------------------------------
(* The data of the Linear API.  An identifier is an 8-4-4-4-12 string; the *)
(* first group tells the kind apart, the rest the entity.                  *)

Uuid(a, b) ==
    Rep(a, 8) \o <<"-">> \o Rep(b, 4) \o <<"-">> \o Rep(b, 4) \o <<"-">>
              \o Rep(b, 4) \o <<"-">> \o Rep(b, 12)

TeamA == Uuid("a", "1")
TeamB == Uuid("a", "2")
TeamA2 == Uuid("a", "3")

OPS == <<"O","P","S">>
ENG == <<"E","N","G">>
NOPE == <<"N","O","P","E">>
Web == <<"W","e","b">>
Mail == <<"a","@","x">>
Todo == <<"T","o","d","o">>
todo == <<"t","o","d","o">>
Done == <<"D","o","n","e">>
Bug == <<"B","u","g">>
Feature == <<"F","e","a","t","u","r","e">>

Worlds == {1, 2}

\* teams { nodes { id key } } : in world 2 team OPS was created anew
RemoteTeams(w) ==
    IF w = 1 THEN << [id |-> TeamA, key |-> OPS], [id |-> TeamB, key |-> ENG] >>
    ELSE << [id |-> TeamA2, key |-> OPS], [id |-> TeamB, key |-> ENG] >>

\* projects { nodes { id name } }, with the team each belongs to
RemoteProjects(w) ==
    << [id |-> Uuid("b", IF w = 1 THEN "1" ELSE "3"), name |-> Web, team |-> TeamA],
       [id |-> Uuid("b", "2"), name |-> Web, team |-> TeamB] >>

\* users { nodes { id email } }
RemoteUsers(w) ==
    << [id |-> Uuid("c", IF w = 1 THEN "1" ELSE "2"), email |-> Mail] >>

\* team(id) { states { nodes { id name } } } ; no such team: team is null
RemoteStates(w, teamId) ==
    IF teamId = TeamA
    THEN << [id |-> Uuid("d", IF w = 1 THEN "1" ELSE "4"), name |-> Todo],
            [id |-> Uuid("d", "2"), name |-> Done] >>
    ELSE IF teamId = TeamB
    THEN << [id |-> Uuid("d", "3"), name |-> Todo] >>
    ELSE << >>

\* team(id) { labels { nodes { id name } } }
RemoteLabels(w, teamId) ==
    IF teamId = TeamA
    THEN << [id |-> Uuid("e", IF w = 1 THEN "1" ELSE "4"), name |-> Bug],
            [id |-> Uuid("e", "2"), name |-> Feature] >>
    ELSE IF teamId = TeamB
    THEN << [id |-> Uuid("e", "3"), name |-> Bug] >>
    ELSE << >>

\* teams(filter: { key: { eq: $key } }, first: 1)
TeamByKey(w, key) ==
    LET Match(t) == t.key = key
        found == SelectSeq(RemoteTeams(w), Match)
    IN  SubSeq(found, 1, IF Len(found) > 1 THEN 1 ELSE Len(found))

\* projects(filter: { name: { eq: $name } [, team: { id: { eq: $teamId } }] }, first: 1)
ProjectsByNameAndTeam(w, name, teamId) ==
    LET Match(p) == p.name = name /\ (Falsy(teamId) \/ p.team = teamId)
        found == SelectSeq(RemoteProjects(w), Match)
    IN  SubSeq(found, 1, IF Len(found) > 1 THEN 1 ELSE Len(found))

\* the issues of the API, each with the key of its team and its number
RemoteIssues(w) ==
    << [id |-> Uuid("f", IF w = 1 THEN "1" ELSE "2"), team |-> OPS, number |-> 42] >>

\* teams(filter: { key: { eq: $teamKey } }) { nodes {
\*   issues(filter: { number: { eq: $number } }, first: 1) { nodes { id } } } }
IssueByIdentifier(w, teamKey, number) ==
    LET teams == TeamByKey(w, teamKey)
        Match(i) == i.team = teamKey /\ i.number = number
        found == SelectSeq(RemoteIssues(w), Match)
    IN  [t \in 1..Len(teams) |->
            [issues |-> SubSeq(found, 1, IF Len(found) > 1 THEN 1 ELSE Len(found))]]

\* users(filter: { email: { eq: $email } }, first: 1)
UserByEmail(w, email) ==
    LET Match(u) == u.email = email
        found == SelectSeq(RemoteUsers(w), Match)
    IN  SubSeq(found, 1, IF Len(found) > 1 THEN 1 ELSE Len(found))

----------------------------------------------------------------------------
(* Errors *)

NoData == << >>

\* new ApiError(statusCode, message, jsonRpcCode, data)
ApiError(statusCode, message, jsonRpcCode, data) ==
    [name |-> "ApiError", statusCode |-> statusCode, message |-> message,
     jsonRpcCode |-> jsonRpcCode, data |-> data,
     responseStatus |-> 0, retryAfter |-> << >>]

\* what rawRequest or an SDK call throws: an Error that is no ApiError, with
\* the HTTP response it carries, if any (responseStatus 0: no response)
TransportError(message, responseStatus, retryAfter) ==
    [name |-> "Error", statusCode |-> 0, message |-> message,
     jsonRpcCode |-> "none", data |-> NoData,
     responseStatus |-> responseStatus, retryAfter |-> retryAfter]

NoError ==
    [name |-> "none", statusCode |-> 0, message |-> << >>,
     jsonRpcCode |-> "none", data |-> NoData,
     responseStatus |-> 0, retryAfter |-> << >>]

NetworkDown == TransportError(Lit("socket hang up"), 0, << >>)

\* the ways the resolver's rawRequest fails
LookupFailures == {NetworkDown}

----------------------------------------------------------------------------
(* The resolver's state *)

\* 5 * 60 * 1000 ms
cacheTimeout == 5 * 60

\* Date.now() when the process starts, in seconds since 1970: late 2023
ProcessStart == 1700 * 1000000

EmptyMap == << >>

EmptyCache ==
    [teams |-> EmptyMap, projects |-> EmptyMap, states |-> EmptyMap,
     labels |-> EmptyMap, users |-> EmptyMap]

\* Map.prototype.has / get / set
MapHas(m, k) == k \in DOMAIN m
MapSet(m, k, v) == [x \in (DOMAIN m) \cup {k} |-> IF x = k THEN v ELSE m[x]]

\* the comparison turned around: stale only while the timestamp is recent
shouldRefreshCacheInverted == now - lastCacheRefresh < cacheTimeout

\* shouldRefreshCache()
shouldRefreshCache == now - lastCacheRefresh > cacheTimeout

Slots == {1, 2}

\* a resolve call: where it stands, what it was given, what it has done
IdleCall ==
    [pc |-> "idle", op |-> "none", input |-> << >>, inputs |-> << >>,
     teamId |-> << >>, reqs |-> 0, cacheRead |-> FALSE,
     resolvedIds |-> << >>, uncachedNames |-> << >>,
     result |-> << >>, results |-> << >>, error |-> NoError, at |-> 0]

Free(c) == calls[c].pc \in {"idle", "returned", "threw"}

Started(op, input, inputs, teamId) ==
    [IdleCall EXCEPT !.op = op, !.input = input, !.inputs = inputs,
                     !.teamId = teamId]
ReadsCache(call) == [call EXCEPT !.cacheRead = TRUE]
\* two requests where the source makes one
AwaitTwice(call) == [call EXCEPT !.pc = "awaiting", !.reqs = @ + 2]
\* await rawRequest(query, variables)
Await(call) == [call EXCEPT !.pc = "awaiting", !.reqs = @ + 1]
Return(call, id) == [call EXCEPT !.pc = "returned", !.result = id, !.at = now]
ReturnList(call, ids) == [call EXCEPT !.pc = "returned", !.results = ids, !.at = now]
Throw(call, e) == [call EXCEPT !.pc = "threw", !.error = e, !.at = now]

InvalidParamsCode == "INVALID_PARAMS"
ServerErrorCode == "SERVER_ERROR"

----------------------------------------------------------------------------
(* resolveTeamId *)

TeamNotFound(teamKeyOrId) ==
    ApiError(404, Lit("Team with key \"") \o teamKeyOrId \o Lit("\" not found"),
             InvalidParamsCode, NoData)

\* this.cache.teams.set(teamKeyOrId, teamId)
TeamsCacheSet(c0, teamKeyOrId, teamId) ==
    [c0 EXCEPT !.teams = MapSet(@, teamKeyOrId, teamId)]

\* up to the await
resolveTeamId(c, teamKeyOrId) ==
    /\ Free(c)
    /\ LET call == Started("resolveTeamId", teamKeyOrId, << >>, << >>)
       IN  IF IsUuid(teamKeyOrId)
           THEN calls' = [calls EXCEPT ![c] = Return(call, teamKeyOrId)]
           ELSE IF ~shouldRefreshCache
                THEN IF MapHas(cache.teams, teamKeyOrId)
                     THEN calls' = [calls EXCEPT ![c] =
                              Return(ReadsCache(call), cache.teams[teamKeyOrId])]
                     ELSE calls' = [calls EXCEPT ![c] = Await(ReadsCache(call))]
                ELSE calls' = [calls EXCEPT ![c] = Await(call)]
    /\ UNCHANGED <<cache, lastCacheRefresh>>

\* from the await on: rawRequest threw `failure`, or answered
resolveTeamId_resume(c, failure) ==
    /\ calls[c].pc = "awaiting"
    /\ calls[c].op = "resolveTeamId"
    /\ LET teamKeyOrId == calls[c].input
           teams == TeamByKey(remote, teamKeyOrId)
       IN  IF failure # NoError
           THEN /\ calls' = [calls EXCEPT ![c] = Throw(@, failure)]
                /\ cache' = cache
           ELSE IF Len(teams) = 0
           THEN /\ calls' = [calls EXCEPT ![c] = Throw(@, TeamNotFound(teamKeyOrId))]
                /\ cache' = cache
           ELSE /\ cache' = TeamsCacheSet(cache, teamKeyOrId, teams[1].id)
                /\ calls' = [calls EXCEPT ![c] = Return(@, teams[1].id)]
    /\ UNCHANGED lastCacheRefresh

----------------------------------------------------------------------------
(* resolveUserId *)

UserNotFound(userEmailOrId) ==
    ApiError(404, Lit("User with email \"") \o userEmailOrId \o Lit("\" not found"),
             InvalidParamsCode, NoData)

\* this.cache.users.set(userEmailOrId, userId)
UsersCacheSet(c0, userEmailOrId, userId) ==
    [c0 EXCEPT !.users = MapSet(@, userEmailOrId, userId)]

resolveUserId(c, userEmailOrId) ==
    /\ Free(c)
    /\ LET call == Started("resolveUserId", userEmailOrId, << >>, << >>)
       IN  IF IsUuid(userEmailOrId)
           THEN calls' = [calls EXCEPT ![c] = Return(call, userEmailOrId)]
           ELSE IF ~shouldRefreshCache
                THEN IF MapHas(cache.users, userEmailOrId)
                     THEN calls' = [calls EXCEPT ![c] =
                              Return(ReadsCache(call), cache.users[userEmailOrId])]
                     ELSE calls' = [calls EXCEPT ![c] = Await(ReadsCache(call))]
                ELSE calls' = [calls EXCEPT ![c] = Await(call)]
    /\ UNCHANGED <<cache, lastCacheRefresh>>

resolveUserId_resume(c, failure) ==
    /\ calls[c].pc = "awaiting"
    /\ calls[c].op = "resolveUserId"
    /\ LET userEmailOrId == calls[c].input
           users == UserByEmail(remote, userEmailOrId)
       IN  IF failure # NoError
           THEN /\ calls' = [calls EXCEPT ![c] = Throw(@, failure)]
                /\ cache' = cache
           ELSE IF Len(users) = 0
           THEN /\ calls' = [calls EXCEPT ![c] = Throw(@, UserNotFound(userEmailOrId))]
                /\ cache' = cache
           ELSE /\ cache' = UsersCacheSet(cache, userEmailOrId, users[1].id)
                /\ calls' = [calls EXCEPT ![c] = Return(@, users[1].id)]
    /\ UNCHANGED lastCacheRefresh

----------------------------------------------------------------------------
(* resolveProjectId *)

\* the name alone as the key, whatever the team
ProjectCacheKeyUnscoped(projectNameOrId, teamId) == projectNameOrId

\* teamId ? `${teamId}:${projectNameOrId}` : projectNameOrId
ProjectCacheKey(projectNameOrId, teamId) ==
    IF Falsy(teamId) THEN projectNameOrId
    ELSE teamId \o <<":">> \o projectNameOrId

ProjectNotFound(projectNameOrId, teamId) ==
    LET context == IF Falsy(teamId) THEN << >> ELSE Lit(" in team ") \o teamId
    IN  ApiError(404, Lit("Project \"") \o projectNameOrId \o Lit("\"") \o context
                          \o Lit(" not found"),
                 InvalidParamsCode, NoData)

\* this.cache.projects.set(cacheKey, projectId)
ProjectsCacheSet(c0, cacheKey, projectId) ==
    [c0 EXCEPT !.projects = MapSet(@, cacheKey, projectId)]

resolveProjectId(c, projectNameOrId, teamId) ==
    /\ Free(c)
    /\ LET call == Started("resolveProjectId", projectNameOrId, << >>, teamId)
           cacheKey == ProjectCacheKey(projectNameOrId, teamId)
       IN  IF IsUuid(projectNameOrId)
           THEN calls' = [calls EXCEPT ![c] = Return(call, projectNameOrId)]
           ELSE IF ~shouldRefreshCache
                THEN IF MapHas(cache.projects, cacheKey)
                     THEN calls' = [calls EXCEPT ![c] =
                              Return(ReadsCache(call), cache.projects[cacheKey])]
                     ELSE calls' = [calls EXCEPT ![c] = Await(ReadsCache(call))]
                ELSE calls' = [calls EXCEPT ![c] = Await(call)]
    /\ UNCHANGED <<cache, lastCacheRefresh>>

resolveProjectId_resume(c, failure) ==
    /\ calls[c].pc = "awaiting"
    /\ calls[c].op = "resolveProjectId"
    /\ LET projectNameOrId == calls[c].input
           teamId == calls[c].teamId
           cacheKey == ProjectCacheKey(projectNameOrId, teamId)
           projects == ProjectsByNameAndTeam(remote, projectNameOrId, teamId)
       IN  IF failure # NoError
           THEN /\ calls' = [calls EXCEPT ![c] = Throw(@, failure)]
                /\ cache' = cache
           ELSE IF Len(projects) = 0
           THEN /\ calls' = [calls EXCEPT ![c] =
                        Throw(@, ProjectNotFound(projectNameOrId, teamId))]
                /\ cache' = cache
           ELSE /\ cache' = ProjectsCacheSet(cache, cacheKey, projects[1].id)
                /\ calls' = [calls EXCEPT ![c] = Return(@, projects[1].id)]
    /\ UNCHANGED lastCacheRefresh

----------------------------------------------------------------------------
(* resolveStateId *)

StateTeamRequired ==
    ApiError(400, Lit("Team ID is required to resolve state names"),
             InvalidParamsCode, NoData)

StateNotFound(stateNameOrId) ==
    ApiError(404, Lit("State \"") \o stateNameOrId \o Lit("\" not found in team"),
             InvalidParamsCode, NoData)

\* the names compared as they are, letter case and all
FindByNameExact(nodes, nameOrId) ==
    LET Match(s) == s.name = nameOrId
    IN  SelectSeq(nodes, Match)

\* states.find(s => s.name.toLowerCase() === stateNameOrId.toLowerCase()):
\* the matching entries, of which find takes the first
FindByName(nodes, nameOrId) ==
    LET Match(s) == toLowerCase(s.name) = toLowerCase(nameOrId)
    IN  SelectSeq(nodes, Match)

\* one map of states for all teams, the team left out of the key
StatesCacheSetUnscoped(c0, teamId, stateNameOrId, stateId) ==
    LET inner == IF MapHas(c0.states, << >>) THEN c0.states[<< >>] ELSE EmptyMap
    IN  [c0 EXCEPT !.states = MapSet(@, << >>, MapSet(inner, stateNameOrId, stateId))]

\* if (!this.cache.states.has(teamId)) this.cache.states.set(teamId, new Map());
\* this.cache.states.get(teamId)!.set(stateNameOrId, state.id)
StatesCacheSet(c0, teamId, stateNameOrId, stateId) ==
    LET inner == IF MapHas(c0.states, teamId) THEN c0.states[teamId] ELSE EmptyMap
    IN  [c0 EXCEPT !.states = MapSet(@, teamId, MapSet(inner, stateNameOrId, stateId))]

resolveStateId(c, stateNameOrId, teamId) ==
    /\ Free(c)
    /\ LET call == Started("resolveStateId", stateNameOrId, << >>, teamId)
       IN  IF IsUuid(stateNameOrId)
           THEN calls' = [calls EXCEPT ![c] = Return(call, stateNameOrId)]
           ELSE IF Falsy(teamId)
           THEN calls' = [calls EXCEPT ![c] = Throw(call, StateTeamRequired)]
           ELSE IF /\ ~shouldRefreshCache
                   /\ MapHas(cache.states, teamId)
                   /\ MapHas(cache.states[teamId], stateNameOrId)
                THEN calls' = [calls EXCEPT ![c] =
                         Return(ReadsCache(call), cache.states[teamId][stateNameOrId])]
                ELSE calls' = [calls EXCEPT ![c] = Await(ReadsCache(call))]
    /\ UNCHANGED <<cache, lastCacheRefresh>>

resolveStateId_resume(c, failure) ==
    /\ calls[c].pc = "awaiting"
    /\ calls[c].op = "resolveStateId"
    /\ LET stateNameOrId == calls[c].input
           teamId == calls[c].teamId
           states == RemoteStates(remote, teamId)
           state == FindByName(states, stateNameOrId)
       IN  IF failure # NoError
           THEN /\ calls' = [calls EXCEPT ![c] = Throw(@, failure)]
                /\ cache' = cache
           ELSE IF Len(state) = 0
           THEN /\ calls' = [calls EXCEPT ![c] = Throw(@, StateNotFound(stateNameOrId))]
                /\ cache' = cache
           ELSE /\ cache' = StatesCacheSet(cache, teamId, stateNameOrId, state[1].id)
                /\ calls' = [calls EXCEPT ![c] = Return(@, state[1].id)]
    /\ UNCHANGED lastCacheRefresh

----------------------------------------------------------------------------
(* resolveLabelIds *)

LabelTeamRequired ==
    ApiError(400, Lit("Team ID is required to resolve label names"),
             InvalidParamsCode, NoData)

LabelNotFound(name) ==
    ApiError(404, Lit("Label \"") \o name \o Lit("\" not found in team"),
             InvalidParamsCode, NoData)

NotUuid(s) == ~IsUuid(s)

\* the loop with unshift for push: each ID found goes to the front
RECURSIVE LabelLoopPrepend(_, _, _, _)
LabelLoopPrepend(uncachedNames, labels, labelCache, resolvedIds) ==
    IF uncachedNames = << >>
    THEN [labelCache |-> labelCache, resolvedIds |-> resolvedIds, error |-> NoError]
    ELSE LET name == Head(uncachedNames)
             Match(l) == toLowerCase(l.name) = toLowerCase(name)
             label == SelectSeq(labels, Match)
         IN  IF Len(label) = 0
             THEN [labelCache |-> labelCache, resolvedIds |-> resolvedIds,
                   error |-> LabelNotFound(name)]
             ELSE LabelLoopPrepend(Tail(uncachedNames), labels,
                                   MapSet(labelCache, name, label[1].id),
                                   << label[1].id >> \o resolvedIds)

\* the loop going on past a name that has no label: the name is left out
RECURSIVE LabelLoopSkipMissing(_, _, _, _)
LabelLoopSkipMissing(uncachedNames, labels, labelCache, resolvedIds) ==
    IF uncachedNames = << >>
    THEN [labelCache |-> labelCache, resolvedIds |-> resolvedIds, error |-> NoError]
    ELSE LET name == Head(uncachedNames)
             Match(l) == toLowerCase(l.name) = toLowerCase(name)
             label == SelectSeq(labels, Match)
         IN  IF Len(label) = 0
             THEN LabelLoopSkipMissing(Tail(uncachedNames), labels, labelCache,
                                       resolvedIds)
             ELSE LabelLoopSkipMissing(Tail(uncachedNames), labels,
                                       MapSet(labelCache, name, label[1].id),
                                       Append(resolvedIds, label[1].id))

\* for (const name of uncachedNames) { find; throw if none;
\*   labelCache.set(name, label.id); resolvedIds.push(label.id) }
RECURSIVE LabelLoop(_, _, _, _)
LabelLoop(uncachedNames, labels, labelCache, resolvedIds) ==
    IF uncachedNames = << >>
    THEN [labelCache |-> labelCache, resolvedIds |-> resolvedIds, error |-> NoError]
    ELSE LET name == Head(uncachedNames)
             label == FindByName(labels, name)
         IN  IF Len(label) = 0
             THEN [labelCache |-> labelCache, resolvedIds |-> resolvedIds,
                   error |-> LabelNotFound(name)]
             ELSE LabelLoop(Tail(uncachedNames), labels,
                            MapSet(labelCache, name, label[1].id),
                            Append(resolvedIds, label[1].id))

\* a new Map for the team every time, whatever the cache holds for it
LabelCacheOfFresh(c0, teamId) == EmptyMap

\* if (!this.cache.labels.has(teamId)) this.cache.labels.set(teamId, new Map());
\* const labelCache = this.cache.labels.get(teamId)!
LabelCacheOf(c0, teamId) ==
    IF MapHas(c0.labels, teamId) THEN c0.labels[teamId] ELSE EmptyMap

\* the team's map as the loop leaves it (the Map is updated in place)
LabelsCacheSet(c0, teamId, labelCache) ==
    [c0 EXCEPT !.labels = MapSet(@, teamId, labelCache)]

resolveLabelIds(c, labelNamesOrIds, teamId) ==
    /\ Free(c)
    /\ LET call == Started("resolveLabelIds", << >>, labelNamesOrIds, teamId)
           uuids == SelectSeq(labelNamesOrIds, IsUuid)
           namesToResolve == SelectSeq(labelNamesOrIds, NotUuid)
           trusted == ~shouldRefreshCache /\ MapHas(cache.labels, teamId)
           Cached(name) == MapHas(cache.labels[teamId], name)
           Uncached(name) == ~MapHas(cache.labels[teamId], name)
           hits == IF trusted THEN SelectSeq(namesToResolve, Cached) ELSE << >>
           uncachedNames == IF trusted THEN SelectSeq(namesToResolve, Uncached)
                            ELSE namesToResolve
           resolvedIds == uuids \o [i \in 1..Len(hits) |-> cache.labels[teamId][hits[i]]]
       IN  IF Falsy(teamId)
           THEN calls' = [calls EXCEPT ![c] = Throw(call, LabelTeamRequired)]
           ELSE IF Len(namesToResolve) = 0
           THEN calls' = [calls EXCEPT ![c] = ReturnList(call, uuids)]
           ELSE IF Len(uncachedNames) = 0
           THEN calls' = [calls EXCEPT ![c] = ReturnList(ReadsCache(call), resolvedIds)]
           ELSE calls' = [calls EXCEPT ![c] =
                    Await([ReadsCache(call) EXCEPT !.resolvedIds = resolvedIds,
                                                   !.uncachedNames = uncachedNames])]
    /\ UNCHANGED <<cache, lastCacheRefresh>>

resolveLabelIds_resume(c, failure) ==
    /\ calls[c].pc = "awaiting"
    /\ calls[c].op = "resolveLabelIds"
    /\ LET teamId == calls[c].teamId
           labels == RemoteLabels(remote, teamId)
           done == LabelLoop(calls[c].uncachedNames, labels,
                             LabelCacheOf(cache, teamId), calls[c].resolvedIds)
       IN  IF failure # NoError
           THEN /\ calls' = [calls EXCEPT ![c] = Throw(@, failure)]
                /\ cache' = cache
           ELSE /\ cache' = LabelsCacheSet(cache, teamId, done.labelCache)
                /\ IF done.error # NoError
                   THEN calls' = [calls EXCEPT ![c] = Throw(@, done.error)]
                   ELSE calls' = [calls EXCEPT ![c] = ReturnList(@, done.resolvedIds)]
    /\ UNCHANGED lastCacheRefresh

----------------------------------------------------------------------------
(* resolveIssueId *)

\* String.prototype.includes / split, for a one-character separator
Includes(s, ch) == \E i \in 1..Len(s) : s[i] = ch

RECURSIVE Split(_, _)
Split(s, ch) ==
    IF ~Includes(s, ch) THEN << s >>
    ELSE LET i == CHOOSE k \in 1..Len(s) :
                     s[k] = ch /\ \A j \in 1..(k - 1) : s[j] # ch
         IN  << SubSeq(s, 1, i - 1) >> \o Split(SubSeq(s, i + 1, Len(s)), ch)

DigitChars == <<"0","1","2","3","4","5","6","7","8","9">>
IsDigit(ch) == \E d \in 1..10 : DigitChars[d] = ch
DigitValue(ch) == (CHOOSE d \in 1..10 : DigitChars[d] = ch) - 1

RECURSIVE DigitsValue(_, _)
DigitsValue(s, acc) ==
    IF s = << >> \/ ~IsDigit(Head(s)) THEN acc
    ELSE DigitsValue(Tail(s), 10 * acc + DigitValue(Head(s)))

RECURSIVE TrimStart(_)
TrimStart(s) == IF s # << >> /\ Head(s) = " " THEN TrimStart(Tail(s)) ELSE s

\* parseInt(numberStr): leading blanks, a sign, then the longest run of
\* decimal digits; NaN when there is no digit there
parseInt(numberStr) ==
    LET t == TrimStart(numberStr)
        signed == t # << >> /\ Head(t) \in {"+", "-"}
        body == IF signed THEN Tail(t) ELSE t
        magnitude == DigitsValue(body, 0)
    IN  IF body = << >> \/ ~IsDigit(Head(body))
        THEN [isNaN |-> TRUE, value |-> 0]
        ELSE [isNaN |-> FALSE,
              value |-> IF signed /\ Head(t) = "-" THEN 0 - magnitude ELSE magnitude]

InvalidIssueFormat(issueIdentifierOrId) ==
    ApiError(400, Lit("Invalid issue identifier format: ") \o issueIdentifierOrId,
             InvalidParamsCode, NoData)

IssueNotFound(issueIdentifierOrId) ==
    ApiError(404, Lit("Issue ") \o issueIdentifierOrId \o Lit(" not found"),
             InvalidParamsCode, NoData)

\* const [teamKey, numberStr] = issueIdentifierOrId.split('-')
IssueTeamKey(issueIdentifierOrId) == Split(issueIdentifierOrId, "-")[1]
IssueNumberStr(issueIdentifierOrId) == Split(issueIdentifierOrId, "-")[2]

resolveIssueId(c, issueIdentifierOrId) ==
    /\ Free(c)
    /\ LET call == Started("resolveIssueId", issueIdentifierOrId, << >>, << >>)
       IN  IF IsUuid(issueIdentifierOrId)
           THEN calls' = [calls EXCEPT ![c] = Return(call, issueIdentifierOrId)]
           ELSE IF Includes(issueIdentifierOrId, "-")
           THEN IF parseInt(IssueNumberStr(issueIdentifierOrId)).isNaN
                THEN calls' = [calls EXCEPT ![c] =
                         Throw(call, InvalidIssueFormat(issueIdentifierOrId))]
                ELSE calls' = [calls EXCEPT ![c] = Await(call)]
           ELSE calls' = [calls EXCEPT ![c] =
                    Throw(call, InvalidIssueFormat(issueIdentifierOrId))]
    /\ UNCHANGED <<cache, lastCacheRefresh>>

\* the issue's ID kept in the teams map under the identifier
resolveIssueId_resumeCaching(c, failure) ==
    /\ calls[c].pc = "awaiting"
    /\ calls[c].op = "resolveIssueId"
    /\ LET issueIdentifierOrId == calls[c].input
           nodes == IssueByIdentifier(remote, IssueTeamKey(issueIdentifierOrId),
                        parseInt(IssueNumberStr(issueIdentifierOrId)).value)
       IN  IF failure # NoError
           THEN calls' = [calls EXCEPT ![c] = Throw(@, failure)] /\ cache' = cache
           ELSE IF Len(nodes) = 0 \/ Len(nodes[1].issues) = 0
           THEN /\ calls' = [calls EXCEPT ![c] = Throw(@, IssueNotFound(issueIdentifierOrId))]
                /\ cache' = cache
           ELSE /\ calls' = [calls EXCEPT ![c] = Return(@, nodes[1].issues[1].id)]
                /\ cache' = TeamsCacheSet(cache, issueIdentifierOrId, nodes[1].issues[1].id)
    /\ UNCHANGED lastCacheRefresh

resolveIssueId_resume(c, failure) ==
    /\ calls[c].pc = "awaiting"
    /\ calls[c].op = "resolveIssueId"
    /\ LET issueIdentifierOrId == calls[c].input
           nodes == IssueByIdentifier(remote, IssueTeamKey(issueIdentifierOrId),
                        parseInt(IssueNumberStr(issueIdentifierOrId)).value)
       IN  IF failure # NoError
           THEN calls' = [calls EXCEPT ![c] = Throw(@, failure)]
           ELSE IF Len(nodes) = 0 \/ Len(nodes[1].issues) = 0
           THEN calls' = [calls EXCEPT ![c] = Throw(@, IssueNotFound(issueIdentifierOrId))]
           ELSE calls' = [calls EXCEPT ![c] = Return(@, nodes[1].issues[1].id)]
    /\ UNCHANGED <<cache, lastCacheRefresh>>

----------------------------------------------------------------------------
(* clearCache *)

\* the users map left out of the reset
clearCacheKeepsUsers ==
    /\ cache' = [EmptyCache EXCEPT !.users = cache.users]
    /\ lastCacheRefresh' = 0
    /\ UNCHANGED calls

clearCache ==
    /\ cache' = EmptyCache
    /\ lastCacheRefresh' = 0
    /\ UNCHANGED calls

----------------------------------------------------------------------------
(* The environment: the clock and the API's data *)

MaxElapsed == 301

\* how far the clock moves between two steps: within the TTL, and beyond it
TickSteps == {cacheTimeout - 100, cacheTimeout + 1}

Tick(d) ==
    /\ now + d <= ProcessStart + MaxElapsed
    /\ now' = now + d
    /\ UNCHANGED remote

\* the API's data changes under the resolver, from one world to a later one
RemoteChange(w) ==
    /\ w > remote
    /\ remote' = w
    /\ UNCHANGED now

----------------------------------------------------------------------------
(* The service call, idle in the resolver's own specification *)

IdleSvc ==
    [pc |-> "idle", operationName |-> "none", teamId |-> << >>, id |-> << >>,
     startTime |-> 0, attemptNumber |-> 0, resolvedTeamId |-> << >>,
     thrown |-> NoError, errors |-> << >>, waits |-> << >>,
     started |-> << >>, failedAt |-> << >>,
     chunks |-> 0, part |-> 0, comments |-> 0,
     result |-> "none", error |-> NoError]

NoObs == [warn |-> << >>, errorLog |-> << >>, rateLimited |-> 0, latency |-> << >>]

\* no credentials file yet: loadCredentials() gives the empty store
NoFile == [exists |-> FALSE]
\* no credential function in progress
NoCredOps == << >>

\* nothing called outside the resolver and the service
NoArgs == [fn |-> "none"]
NoRet == [done |-> FALSE]

----------------------------------------------------------------------------
(* The resolver called directly, one call after the other *)

CanonicalId == Uuid("F", "9")
\* 36 characters, hyphens in place, one of them no hexadecimal digit
AlmostId == Uuid("a", "g")
IssueOps42 == OPS \o <<"-","4","2">>

Init ==
    /\ cache = EmptyCache
    /\ lastCacheRefresh = 0
    /\ calls = [c \in Slots |-> IdleCall]
    /\ now = ProcessStart
    /\ remote = 1
    /\ svc = IdleSvc
    /\ obs = NoObs
    /\ issues = 0
    /\ args = NoArgs
    /\ ret = NoRet
    /\ sse = << >>
    /\ awaitingAtClear = {}
    /\ connections = EmptyMap
    /\ activeSSEConnections = 0
    /\ responses = << >>
    /\ heartbeatInterval = "set"
    /\ credentialsFile = NoFile
    /\ credOps = NoCredOps

\* rawRequest answers or throws, and the call runs on from its await
Lookup(c) ==
    \E failure \in LookupFailures \cup {NoError} :
        \/ resolveTeamId_resume(c, failure)
        \/ resolveUserId_resume(c, failure)
        \/ resolveProjectId_resume(c, failure)
        \/ resolveStateId_resume(c, failure)
        \/ resolveLabelIds_resume(c, failure)
        \/ resolveIssueId_resume(c, failure)

Advance == (\E d \in TickSteps : Tick(d)) /\ UNCHANGED <<resolverVars, svcVars, otherVars>>
Change == (\E w \in Worlds : RemoteChange(w)) /\ UNCHANGED <<resolverVars, svcVars, otherVars>>
Answer == Lookup(1) /\ UNCHANGED <<envVars, svcVars, otherVars>>
Clear == clearCache /\ UNCHANGED <<envVars, svcVars, otherVars>>

\* every kind of identifier, one name and one canonical ID of each
ResolveTeam ==
    (\E in \in {OPS, CanonicalId} : resolveTeamId(1, in))
    /\ UNCHANGED <<envVars, svcVars, otherVars>>
ResolveUser ==
    (\E in \in {Mail, CanonicalId} : resolveUserId(1, in))
    /\ UNCHANGED <<envVars, svcVars, otherVars>>
ResolveProject ==
    (\E in \in {Web, CanonicalId} : resolveProjectId(1, in, Undefined))
    /\ UNCHANGED <<envVars, svcVars, otherVars>>
ResolveState ==
    (\E in \in {Todo, CanonicalId}, t \in {TeamA, Undefined, << >>} :
        resolveStateId(1, in, t))
    /\ UNCHANGED <<envVars, svcVars, otherVars>>
ResolveLabels ==
    (\E in \in {<<Bug>>, <<CanonicalId>>}, t \in {TeamA, << >>} :
        resolveLabelIds(1, in, t))
    /\ UNCHANGED <<envVars, svcVars, otherVars>>
ResolveIssue ==
    (\E in \in {IssueOps42, CanonicalId} : resolveIssueId(1, in))
    /\ UNCHANGED <<envVars, svcVars, otherVars>>

Next ==
    \/ ResolveTeam
    \/ ResolveUser
    \/ ResolveProject
    \/ ResolveState
    \/ ResolveLabels
    \/ ResolveIssue
    \/ Answer
    \/ Clear
    \/ Advance
    \/ Change

Spec == Init /\ [][Next]_vars

----------------------------------------------------------------------------
(* What the claims speak of *)

CachedOps == {"resolveTeamId", "resolveUserId", "resolveProjectId",
              "resolveStateId", "resolveLabelIds"}

\* the call was given a name, not (only) canonical IDs
NameShaped(call) ==
    IF call.op = "resolveLabelIds"
    THEN \E i \in 1..Len(call.inputs) : ~IsUuid(call.inputs[i])
    ELSE ~IsUuid(call.input)

\* the call was given canonical IDs only
CanonicalShaped(call) ==
    IF call.op = "resolveLabelIds"
    THEN \A i \in 1..Len(call.inputs) : IsUuid(call.inputs[i])
    ELSE IsUuid(call.input)

\* the cache map has an entry under the key the call resolves
Cached(c0, call) ==
    CASE call.op = "resolveTeamId" -> MapHas(c0.teams, call.input)
      [] call.op = "resolveUserId" -> MapHas(c0.users, call.input)
      [] call.op = "resolveProjectId" ->
            MapHas(c0.projects, ProjectCacheKey(call.input, call.teamId))
      [] call.op = "resolveStateId" ->
            /\ MapHas(c0.states, call.teamId)
            /\ MapHas(c0.states[call.teamId], call.input)
      [] call.op = "resolveLabelIds" ->
            /\ MapHas(c0.labels, call.teamId)
            /\ \A i \in 1..Len(call.inputs) :
                  IsUuid(call.inputs[i]) \/ MapHas(c0.labels[call.teamId], call.inputs[i])
      [] OTHER -> FALSE

\* what the call returned: one ID, or a list of them
Returned(call) == IF call.op = "resolveLabelIds" THEN call.results ELSE << call.result >>

SameRequest(a, b) ==
    a.op = b.op /\ a.input = b.input /\ a.inputs = b.inputs /\ a.teamId = b.teamId

\* slot c goes from a finished (or no) call to a new one
Begins(c) == Free(c) /\ calls'[c] # calls[c]
\* slot c runs on from its await to its end
Resumes(c) == calls[c].pc = "awaiting" /\ calls'[c].pc # "awaiting"

\* the team scope is missing: absent, or the empty string
NoTeam(teamId) == teamId = Undefined \/ teamId = << >>

InvalidParams(e) == e.name = "ApiError" /\ e.statusCode = 400 /\ e.jsonRpcCode = InvalidParamsCode
NotFound(e) == e.name = "ApiError" /\ e.statusCode = 404

(* C1: after a successful resolution of a name, a second resolution of the  *)
(* same name in the same scope within the TTL and with no clearCache in     *)
(* between (the entry is still in the cache) returns the same ID and issues *)
(* no remote call.                                                          *)
C1_SecondResolutionHitsCache ==
    [][ \A c \in Slots :
          ( /\ Begins(c)
            /\ calls[c].pc = "returned"
            /\ calls[c].op \in CachedOps
            /\ NameShaped(calls[c])
            /\ calls[c].reqs = 1
            /\ SameRequest(calls[c], calls'[c])
            /\ Cached(cache, calls[c])
            /\ now - calls[c].at <= cacheTimeout )
          => ( /\ calls'[c].pc = "returned"
               /\ calls'[c].reqs = 0
               /\ Returned(calls'[c]) = Returned(calls[c]) ) ]_vars

(* C2: a resolve call of a cached kind whose remote lookup succeeds writes  *)
(* the entry and sets the last-refresh timestamp to the current time, so    *)
(* that the staleness check then reports "not stale".                       *)
C2_RefreshResetsTimestamp ==
    [][ \A c \in Slots :
          ( /\ Resumes(c)
            /\ calls[c].op \in CachedOps
            /\ calls'[c].pc = "returned" )
          => ( /\ Cached(cache', calls[c])
               /\ lastCacheRefresh' = now
               /\ ~(now' - lastCacheRefresh' > cacheTimeout) ) ]_vars

(* C3: every resolve operation given canonical IDs only returns them        *)
(* unchanged, with no remote call and no change of the cache, whatever its  *)
(* other arguments.                                                         *)
C3_CanonicalIdsPassThrough ==
    [][ \A c \in Slots :
          ( Begins(c) /\ CanonicalShaped(calls'[c]) )
          => ( /\ calls'[c].pc = "returned"
               /\ calls'[c].reqs = 0
               /\ Returned(calls'[c]) =
                     (IF calls'[c].op = "resolveLabelIds" THEN calls'[c].inputs
                      ELSE << calls'[c].input >>)
               /\ cache' = cache
               /\ lastCacheRefresh' = lastCacheRefresh ) ]_vars

(* C8 as claimed: resolveStateId with an empty or absent teamId fails with  *)
(* InvalidParams for every stateNameOrId, before any cache read or remote   *)
(* call.                                                                    *)
C8_AnyStateNeedsTeam ==
    \A c \in Slots :
        ( /\ calls[c].op = "resolveStateId"
          /\ NoTeam(calls[c].teamId) )
        => ( /\ calls[c].pc = "threw"
             /\ InvalidParams(calls[c].error)
             /\ calls[c].reqs = 0
             /\ ~calls[c].cacheRead )

(* C8 as amended: resolveStateId with an empty or absent teamId and a       *)
(* stateNameOrId that is not canonical-shaped fails with InvalidParams      *)
(* before any cache read or remote call; a canonical-shaped stateNameOrId   *)
(* is returned unchanged even then.                                         *)
C8_NamedStateNeedsTeam ==
    \A c \in Slots :
        ( /\ calls[c].op = "resolveStateId"
          /\ NoTeam(calls[c].teamId) )
        => ( /\ calls[c].reqs = 0
             /\ ~calls[c].cacheRead
             /\ IF IsUuid(calls[c].input)
                THEN calls[c].pc = "returned" /\ calls[c].result = calls[c].input
                ELSE calls[c].pc = "threw" /\ InvalidParams(calls[c].error) )

C8_Witness ==
    /\ calls[1].op = "resolveStateId"
    /\ calls[1].teamId = << >>
    /\ calls[1].input = Todo
    /\ calls[1].pc = "threw"
    /\ calls[1].error = StateTeamRequired

(* C9: when the last-refresh timestamp is more than the TTL in the past,    *)
(* resolving a name, cached before or not, issues a remote call, and the    *)
(* call's success overwrites the entry with the ID just fetched, which is   *)
(* what it returns.                                                         *)
C9_StaleForcesRefetch ==
    [][ \A c \in Slots :
          /\ ( /\ Begins(c)
               /\ calls'[c].op \in CachedOps
               /\ NameShaped(calls'[c])
               /\ ~NoTeam(calls'[c].teamId)
                     \/ calls'[c].op \notin {"resolveStateId", "resolveLabelIds"}
               /\ now - lastCacheRefresh > cacheTimeout )
             => ( calls'[c].pc = "awaiting" /\ calls'[c].reqs = 1 )
          /\ ( /\ Resumes(c)
               /\ calls[c].op \in CachedOps
               /\ calls'[c].pc = "returned" )
             => ( /\ Cached(cache', calls[c])
                  /\ calls[c].op = "resolveTeamId" =>
                        /\ cache'.teams[calls[c].input] = TeamByKey(remote, calls[c].input)[1].id
                        /\ calls'[c].result = cache'.teams[calls[c].input]
                  /\ calls[c].op = "resolveUserId" =>
                        /\ cache'.users[calls[c].input] = UserByEmail(remote, calls[c].input)[1].id
                        /\ calls'[c].result = cache'.users[calls[c].input]
                  /\ calls[c].op = "resolveProjectId" =>
                        /\ cache'.projects[ProjectCacheKey(calls[c].input, calls[c].teamId)]
                              = ProjectsByNameAndTeam(remote, calls[c].input, calls[c].teamId)[1].id
                        /\ calls'[c].result =
                              cache'.projects[ProjectCacheKey(calls[c].input, calls[c].teamId)]
                  /\ calls[c].op = "resolveStateId" =>
                        /\ cache'.states[calls[c].teamId][calls[c].input]
                              \in {RemoteStates(remote, calls[c].teamId)[i].id :
                                      i \in 1..Len(RemoteStates(remote, calls[c].teamId))}
                        /\ calls'[c].result = cache'.states[calls[c].teamId][calls[c].input]
                  /\ calls[c].op = "resolveLabelIds" =>
                        \A i \in 1..Len(calls[c].inputs) :
                            IsUuid(calls[c].inputs[i]) \/
                            cache'.labels[calls[c].teamId][calls[c].inputs[i]]
                              \in {RemoteLabels(remote, calls[c].teamId)[k].id :
                                      k \in 1..Len(RemoteLabels(remote, calls[c].teamId))} ) ]_vars

\* a name cached with an ID the API no longer gives is being looked up again
C9_Witness ==
    /\ calls[1].pc = "awaiting"
    /\ calls[1].op = "resolveTeamId"
    /\ MapHas(cache.teams, calls[1].input)
    /\ now - lastCacheRefresh > cacheTimeout
    /\ cache.teams[calls[1].input] # TeamByKey(remote, calls[1].input)[1].id

----------------------------------------------------------------------------
(* The team-scoped kinds, states and labels, resolved for two teams *)

ScopedState ==
    (\E in \in {Todo, todo}, t \in {TeamA, TeamB} : resolveStateId(1, in, t))
    /\ UNCHANGED <<envVars, svcVars, otherVars>>
ScopedLabels ==
    (\E in \in {<<Bug>>, <<Bug, Feature>>, <<CanonicalId, Feature>>}, t \in {TeamA, TeamB} :
        resolveLabelIds(1, in, t))
    /\ UNCHANGED <<envVars, svcVars, otherVars>>
ScopedAnswer ==
    (\E failure \in LookupFailures \cup {NoError} :
        \/ resolveStateId_resume(1, failure)
        \/ resolveLabelIds_resume(1, failure))
    /\ UNCHANGED <<envVars, svcVars, otherVars>>

NextScoped ==
    \/ ScopedState
    \/ ScopedLabels
    \/ ScopedAnswer
    \/ Clear
    \/ Change

SpecScoped == Init /\ [][NextScoped]_vars

IdsOf(nodes) == {nodes[i].id : i \in 1..Len(nodes)}
\* every ID the API gives, in any of its worlds, for a state or a label of the team
TeamStateIds(teamId) == UNION {IdsOf(RemoteStates(w, teamId)) : w \in Worlds}
TeamLabelIds(teamId) == UNION {IdsOf(RemoteLabels(w, teamId)) : w \in Worlds}

(* C10: every state or label entry cached for a team holds an ID of that    *)
(* team's own list, a resolution for a team returns IDs of that team only,  *)
(* and a call resolving for one team leaves the entries of every other team *)
(* as they were.                                                            *)
C10_TeamScopedIsolation ==
    /\ [] ( /\ \A t \in DOMAIN cache.states : \A n \in DOMAIN cache.states[t] :
                  cache.states[t][n] \in TeamStateIds(t)
            /\ \A t \in DOMAIN cache.labels : \A n \in DOMAIN cache.labels[t] :
                  cache.labels[t][n] \in TeamLabelIds(t)
            /\ \A c \in Slots :
                  calls[c].pc = "returned" =>
                    /\ calls[c].op = "resolveStateId" =>
                          calls[c].result \in TeamStateIds(calls[c].teamId)
                    /\ calls[c].op = "resolveLabelIds" =>
                          \A i \in 1..Len(calls[c].results) :
                              \/ calls[c].results[i] \in TeamLabelIds(calls[c].teamId)
                              \/ IsUuid(calls[c].inputs[i])
                                    /\ calls[c].results[i] = calls[c].inputs[i] )
    /\ [][ \A c \in Slots :
             Resumes(c) =>
               /\ \A t \in (DOMAIN cache.states) \ {calls[c].teamId} :
                     MapHas(cache'.states, t) /\ cache'.states[t] = cache.states[t]
               /\ \A t \in (DOMAIN cache.labels) \ {calls[c].teamId} :
                     MapHas(cache'.labels, t) /\ cache'.labels[t] = cache.labels[t] ]_vars

\* the same names are cached for both teams, with the IDs of each
C10_Witness ==
    /\ MapHas(cache.states, TeamA) /\ MapHas(cache.states, TeamB)
    /\ MapHas(cache.states[TeamA], Todo) /\ MapHas(cache.states[TeamB], Todo)
    /\ cache.states[TeamA][Todo] # cache.states[TeamB][Todo]
    /\ MapHas(cache.labels, TeamA) /\ MapHas(cache.labels, TeamB)
    /\ MapHas(cache.labels[TeamA], Bug) /\ MapHas(cache.labels[TeamB], Bug)
    /\ cache.labels[TeamA][Bug] # cache.labels[TeamB][Bug]

----------------------------------------------------------------------------
(* LinearService.executeWithRetry, around the operation of createIssue.     *)
(* pRetry runs the operation, and after a failure calls onFailedAttempt and *)
(* starts the next attempt when its timer fires, until no retry is left.    *)
(* A timer fires when its delay has passed, and the clock moves only then.  *)

\* one retry fewer
retriesShort == 3 - 1

\* the options given to pRetry; the timeouts in seconds
retries == 3
minTimeout == 1
maxTimeout == 10

RECURSIVE Pow2(_)
Pow2(n) == IF n = 0 THEN 1 ELSE 2 * Pow2(n - 1)

\* the delay before attempt n + 1: minTimeout * 2^(n - 1), at most maxTimeout
Backoff(n) ==
    LET timeout == minTimeout * Pow2(n - 1)
    IN  IF timeout > maxTimeout THEN maxTimeout ELSE timeout

\* the error pRetry rejects with once no retry is left: of the errors of the
\* failed attempts, the one whose message came most often, the later on a tie
RECURSIVE MainErrorFrom(_, _, _, _)
MainErrorFrom(errors, i, mainError, mainErrorCount) ==
    IF i > Len(errors) THEN mainError
    ELSE LET count == Cardinality({j \in 1..i : errors[j].message = errors[i].message})
         IN  IF count >= mainErrorCount
             THEN MainErrorFrom(errors, i + 1, errors[i], count)
             ELSE MainErrorFrom(errors, i + 1, mainError, mainErrorCount)
MainError(errors) == MainErrorFrom(errors, 1, NoError, 0)

\* no pause for the hint
WaitTimeNone(retryAfter) == 0

\* parseInt(retryAfter) * 1000 ms; setTimeout takes NaN for no delay
WaitTime(retryAfter) ==
    IF parseInt(retryAfter).isNaN THEN 0 ELSE parseInt(retryAfter).value

\* new ApiError(500, `Linear API error: ${error.message}`,
\*              JsonRpcErrorCodes.SERVER_ERROR, { originalError: error.message })
UpstreamFailure(error) ==
    ApiError(500, Lit("Linear API error: ") \o error.message, ServerErrorCode,
             << <<"originalError", error.message>> >>)

TitleAndTeamRequired ==
    ApiError(400, Lit("Title and teamId are required"), InvalidParamsCode, NoData)

FailedToCreate == ApiError(500, Lit("Failed to create issue"), ServerErrorCode, NoData)

RateLimited(retryAfter) == TransportError(Lit("Too Many Requests"), 429, retryAfter)

\* what client.createIssue does: answers (NoError), answers without an issue,
\* or throws
CreateOutcomes ==
    {NoError, FailedToCreate, NetworkDown, RateLimited(<<"2">>), RateLimited(<< >>)}

\* createIssue(params), up to the first run of the operation
createIssue(teamId) ==
    /\ svc.pc = "idle"
    /\ IF Falsy(teamId)
       THEN svc' = [svc EXCEPT !.pc = "threw", !.operationName = "createIssue",
                               !.teamId = teamId, !.error = TitleAndTeamRequired]
       ELSE svc' = [svc EXCEPT !.pc = "attempt", !.operationName = "createIssue",
                               !.teamId = teamId, !.startTime = now,
                               !.attemptNumber = 1]
    /\ UNCHANGED <<obs, issues>>

\* pRetry calls the operation, which calls the resolver
operation_start ==
    /\ svc.pc = "attempt"
    /\ resolveTeamId(1, svc.teamId)
    /\ svc' = [svc EXCEPT !.pc = "resolving", !.started = Append(@, now)]
    /\ UNCHANGED <<obs, issues>>

\* catch (error) in the function given to pRetry
Caught(error) ==
    /\ svc' = [svc EXCEPT
                 !.pc = IF error.responseStatus = 429 /\ error.retryAfter # << >>
                        THEN "rateWait" ELSE "failed",
                 !.thrown = error,
                 !.failedAt = Append(@, now)]
    /\ obs' = [obs EXCEPT !.rateLimited =
                 IF error.responseStatus = 429 THEN @ + 1 ELSE @]

\* resolveTeamId has returned or thrown
operation_resolved ==
    /\ svc.pc = "resolving"
    /\ calls[1].pc \in {"returned", "threw"}
    /\ IF calls[1].pc = "returned"
       THEN /\ svc' = [svc EXCEPT !.pc = "creating", !.resolvedTeamId = calls[1].result]
            /\ obs' = obs
       ELSE Caught(calls[1].error)
    /\ UNCHANGED issues

\* the result returned with no latency observed
operation_createdUnobserved(outcome) ==
    /\ svc.pc = "creating"
    /\ svc.chunks = 0
    /\ IF outcome = NoError
       THEN /\ issues' = issues + 1
            /\ svc' = [svc EXCEPT !.pc = "returned", !.result = "issue"]
            /\ obs' = obs
       ELSE /\ issues' = issues
            /\ Caught(outcome)

\* client.createIssue has answered or thrown, the description short enough
\* to go in one piece (the else branch)
operation_created(outcome) ==
    /\ svc.pc = "creating"
    /\ svc.chunks = 0
    /\ IF outcome = NoError
       THEN /\ issues' = issues + 1
            /\ svc' = [svc EXCEPT !.pc = "returned", !.result = "issue"]
            /\ obs' = [obs EXCEPT !.latency =
                         Append(@, [operation |-> svc.operationName,
                                    duration |-> now - svc.startTime])]
       ELSE /\ issues' = issues
            /\ Caught(outcome)

\* await new Promise(resolve => setTimeout(resolve, waitTime)); throw error
rateLimitWait ==
    /\ svc.pc = "rateWait"
    /\ now' = now + WaitTime(svc.thrown.retryAfter)
    /\ svc' = [svc EXCEPT !.pc = "failed"]
    /\ UNCHANGED <<obs, issues>>

\* onFailedAttempt called only when a retry follows
pRetry_failedAttemptQuietLast ==
    /\ svc.pc = "failed"
    /\ LET errors == Append(svc.errors, svc.thrown)
           warned == Append(obs.warn,
                        [attempt |-> svc.attemptNumber,
                         retriesLeft |-> 3 - (svc.attemptNumber - 1),
                         error |-> svc.thrown.message,
                         operationName |-> svc.operationName])
       IN  IF svc.attemptNumber <= 3
           THEN /\ svc' = [svc EXCEPT !.pc = "backoff", !.errors = errors]
                /\ obs' = [obs EXCEPT !.warn = warned]
           ELSE /\ svc' = [svc EXCEPT !.pc = "threw", !.errors = errors,
                                      !.error = ApiError(500, errors[1].message,
                                                         "SERVER_ERROR", << >>)]
                /\ obs' = obs
    /\ UNCHANGED issues

\* pRetry: onFailedAttempt, then retry or reject; the rejection is caught by
\* executeWithRetry, which logs it and throws its own error
pRetry_failedAttempt ==
    /\ svc.pc = "failed"
    /\ LET errors == Append(svc.errors, svc.thrown)
           warned == Append(obs.warn,
                        [attempt |-> svc.attemptNumber,
                         retriesLeft |-> retries - (svc.attemptNumber - 1),
                         error |-> svc.thrown.message,
                         operationName |-> svc.operationName])
       IN  IF svc.attemptNumber <= retries
           THEN /\ svc' = [svc EXCEPT !.pc = "backoff", !.errors = errors]
                /\ obs' = [obs EXCEPT !.warn = warned]
           ELSE /\ svc' = [svc EXCEPT !.pc = "threw", !.errors = errors,
                                      !.error = UpstreamFailure(MainError(errors))]
                /\ obs' = [obs EXCEPT !.warn = warned,
                              !.errorLog = Append(@, [error |-> MainError(errors).message,
                                                      operationName |-> svc.operationName])]
    /\ UNCHANGED issues

\* the retry timer fires
pRetry_timer ==
    /\ svc.pc = "backoff"
    /\ now' = now + Backoff(svc.attemptNumber)
    /\ svc' = [svc EXCEPT !.pc = "attempt", !.attemptNumber = @ + 1,
                          !.waits = Append(@, Backoff(svc.attemptNumber))]
    /\ UNCHANGED <<obs, issues>>

CreateIssue ==
    (\E teamId \in {OPS, NOPE, TeamB, << >>} : createIssue(teamId))
    /\ UNCHANGED <<resolverVars, envVars, otherVars>>
OperationStart == operation_start /\ UNCHANGED <<cache, lastCacheRefresh, envVars, otherVars>>
ResolverAnswer ==
    /\ svc.pc = "resolving"
    /\ \E failure \in LookupFailures \cup {NoError} : resolveTeamId_resume(1, failure)
    /\ UNCHANGED <<envVars, svcVars, otherVars>>
OperationResolved == operation_resolved /\ UNCHANGED <<resolverVars, envVars, otherVars>>
OperationCreated ==
    (\E outcome \in CreateOutcomes : operation_created(outcome))
    /\ UNCHANGED <<resolverVars, envVars, otherVars>>
RateLimitWait == rateLimitWait /\ UNCHANGED <<resolverVars, remote, otherVars>>
FailedAttempt == pRetry_failedAttempt /\ UNCHANGED <<resolverVars, envVars, otherVars>>
RetryTimer == pRetry_timer /\ UNCHANGED <<resolverVars, remote, otherVars>>

NextRetry ==
    \/ CreateIssue
    \/ OperationStart
    \/ ResolverAnswer
    \/ OperationResolved
    \/ OperationCreated
    \/ RateLimitWait
    \/ FailedAttempt
    \/ RetryTimer

SpecRetry == Init /\ [][NextRetry]_vars

\* the call went through executeWithRetry and ended with an error
Exhausted == svc.pc = "threw" /\ svc.attemptNumber > 0

\* an error the resolver raises: NotFound or InvalidParams
ResolverLevel(e) ==
    e.name = "ApiError" /\ e.statusCode \in {400, 404} /\ e.jsonRpcCode = InvalidParamsCode

(* C4: an attempt that fails with a resolver-level error (NotFound,         *)
(* InvalidParams) is the last attempt, and the caller gets that very error. *)
C4_ResolverErrorsReachCaller ==
    \A i \in 1..Len(svc.errors) :
        ResolverLevel(svc.errors[i]) =>
            /\ svc.pc = "threw"
            /\ svc.error = svc.errors[i]
            /\ Len(svc.started) = i

(* C5: the operation is run at most 4 times; a call whose every attempt     *)
(* fails ends, after exactly 4 attempts, with an error of status 500, and   *)
(* it does not end with an error before.                                    *)
C5_FourAttemptsThenFailure ==
    /\ Len(svc.started) <= 4
    /\ Len(svc.errors) <= 4
    /\ Exhausted =>
          /\ Len(svc.started) = 4
          /\ Len(svc.errors) = 4
          /\ svc.error.name = "ApiError"
          /\ svc.error.statusCode = 500
    /\ Len(svc.errors) = 4 => Exhausted

C5_Witness ==
    /\ Exhausted
    /\ Len(svc.started) = 4
    /\ \A i \in 1..4 : svc.errors[i] = NetworkDown

(* C6: the error raised on exhaustion has status 500 and the     *)
(* server-error code, carries the operation name and the original failure   *)
(* message as structured context, and is not the error the operation threw. *)
C6_FailureCarriesOperationName ==
    Exhausted =>
        /\ svc.error.statusCode = 500
        /\ svc.error.jsonRpcCode = ServerErrorCode
        /\ \E i \in 1..Len(svc.errors) :
              svc.error.data = << <<"originalError", svc.errors[i].message>> >>
        /\ \/ \E k \in 1..Len(svc.error.message) :
                 svc.error.message[k] = svc.operationName
           \/ \E k \in 1..Len(svc.error.data) :
                 svc.error.data[k][1] = "operationName"
        /\ \A i \in 1..Len(svc.errors) : svc.error # svc.errors[i]

\* exhausted by failures of several kinds, the last an ApiError of status 500
C6_Witness ==
    /\ Exhausted
    /\ svc.errors[1] = RateLimited(<<"2">>)
    /\ svc.errors[4] = FailedToCreate
    /\ svc.error.data = << <<"originalError", FailedToCreate.message>> >>

(* C7: after an attempt that failed with status 429 and a retry-after hint  *)
(* of N seconds the next attempt starts no earlier than N seconds after the *)
(* failure; after any other failure it starts after the backoff delay       *)
(* alone, which is between 1 and 10 seconds.                                *)
C7_RateLimitWaitPrecedence ==
    \A i \in 1..(Len(svc.started) - 1) :
        LET e == svc.errors[i]
            gap == svc.started[i + 1] - svc.failedAt[i]
        IN  /\ (e.responseStatus = 429 /\ ~parseInt(e.retryAfter).isNaN) =>
                  gap >= parseInt(e.retryAfter).value
            /\ ~(e.responseStatus = 429 /\ e.retryAfter # << >>) =>
                  /\ gap = svc.waits[i]
                  /\ 1 <= gap /\ gap <= 10

\* a second attempt after a rate-limited first one, and a third after a
\* failure of the second that was not rate-limited
C7_Witness ==
    /\ Len(svc.started) >= 3
    /\ svc.errors[1] = RateLimited(<<"2">>)
    /\ svc.started[2] - svc.failedAt[1] >= 2
    /\ svc.errors[2] = NetworkDown
    /\ svc.started[3] - svc.failedAt[2] = 2

----------------------------------------------------------------------------
(* resolveLabelIds given lists that mix canonical IDs and names *)

OtherId == Uuid("0", "7")
MixedLabels == <<CanonicalId, Bug, OtherId, Feature>>
LabelLists ==
    {<<Bug>>, MixedLabels, <<Feature, CanonicalId, Bug>>, <<Bug, Done>>,
     <<CanonicalId, OtherId>>}

LabelsResolve ==
    (\E in \in LabelLists : resolveLabelIds(1, in, TeamA))
    /\ UNCHANGED <<envVars, svcVars, otherVars>>
LabelsAnswer ==
    (\E failure \in LookupFailures \cup {NoError} : resolveLabelIds_resume(1, failure))
    /\ UNCHANGED <<envVars, svcVars, otherVars>>

NextLabels ==
    \/ LabelsResolve
    \/ LabelsAnswer
    \/ Clear
    \/ Advance
    \/ Change

SpecLabels == Init /\ [][NextLabels]_vars

\* the IDs the API gives, in any of its worlds, for the team's label of that name
LabelIdsNamed(teamId, name) ==
    UNION { {RemoteLabels(w, teamId)[k].id :
                k \in {j \in 1..Len(RemoteLabels(w, teamId)) :
                          toLowerCase(RemoteLabels(w, teamId)[j].name) = toLowerCase(name)}} :
            w \in Worlds }

\* every name of the list is in the team's map, which is not stale
TrustedHit(c0, inputs, teamId) ==
    /\ now - lastCacheRefresh <= cacheTimeout
    /\ MapHas(c0.labels, teamId)
    /\ \A i \in 1..Len(inputs) :
          IsUuid(inputs[i]) \/ MapHas(c0.labels[teamId], inputs[i])

(* C11: a resolveLabelIds call makes at most one remote fetch: none when    *)
(* the list holds no name or every name is a trusted cache hit, one         *)
(* otherwise, however many names miss; what it returns is the canonical     *)
(* inputs, in their order, followed by one ID for each name.                *)
C11_OneFetchCanonicalsFirst ==
    /\ [] (\A c \in Slots : calls[c].op = "resolveLabelIds" => calls[c].reqs <= 1)
    /\ [][ \A c \in Slots :
             /\ ( /\ Begins(c)
                  /\ calls'[c].op = "resolveLabelIds"
                  /\ ~NoTeam(calls'[c].teamId) )
                => IF \/ CanonicalShaped(calls'[c])
                      \/ TrustedHit(cache, calls'[c].inputs, calls'[c].teamId)
                   THEN calls'[c].pc = "returned" /\ calls'[c].reqs = 0
                   ELSE calls'[c].pc = "awaiting" /\ calls'[c].reqs = 1
             /\ ( /\ calls'[c] # calls[c]
                  /\ calls'[c].op = "resolveLabelIds"
                  /\ calls'[c].pc = "returned" )
                => LET inputs == calls'[c].inputs
                       ids == SelectSeq(inputs, IsUuid)
                       names == SelectSeq(inputs, NotUuid)
                       out == calls'[c].results
                   IN  /\ Len(out) = Len(inputs)
                       /\ SubSeq(out, 1, Len(ids)) = ids
                       /\ \A i \in 1..Len(names) :
                             \E k \in (Len(ids) + 1)..Len(out) :
                                 out[k] \in LabelIdsNamed(calls'[c].teamId, names[i]) ]_vars

\* two canonical IDs and two names, one of them cached by an earlier call:
\* one fetch, and the four IDs with the canonical ones first
C11_Witness ==
    /\ calls[1].op = "resolveLabelIds"
    /\ calls[1].inputs = MixedLabels
    /\ calls[1].pc = "returned"
    /\ calls[1].reqs = 1
    /\ calls[1].results[1] = CanonicalId
    /\ calls[1].results[2] = OtherId
    /\ calls[1].results[3] \in LabelIdsNamed(TeamA, Bug)
    /\ calls[1].results[4] \in LabelIdsNamed(TeamA, Feature)
    /\ MapHas(cache.labels[TeamA], Bug) /\ MapHas(cache.labels[TeamA], Feature)

----------------------------------------------------------------------------
(* resolveIssueId given identifiers of every shape, the cache filled or not *)

IssueOps7 == OPS \o <<"-","7">>
IssueNope42 == NOPE \o <<"-","4","2">>
IssueOpsX == OPS \o <<"-","x">>
IssueOpsNothing == OPS \o <<"-">>
IssueOps42abc == OPS \o <<"-","4","2","a","b","c">>
IssueOps42Dash7 == OPS \o <<"-","4","2","-","7">>

IssueInputs ==
    {IssueOps42, IssueOps7, IssueNope42, OPS, IssueOpsX, IssueOpsNothing,
     IssueOps42abc, IssueOps42Dash7, CanonicalId}

IssueResolve ==
    (\E in \in IssueInputs : resolveIssueId(1, in))
    /\ UNCHANGED <<envVars, svcVars, otherVars>>
\* a team resolved before or after, so that the cache is not empty
IssueTeam == resolveTeamId(1, OPS) /\ UNCHANGED <<envVars, svcVars, otherVars>>

NextIssue ==
    \/ IssueResolve
    \/ IssueTeam
    \/ Answer
    \/ Clear
    \/ Advance
    \/ Change

SpecIssue == Init /\ [][NextIssue]_vars

(* C12: no step of a resolveIssueId call, whatever its input and however it *)
(* ends, reads the cache or changes any of the five maps or the             *)
(* last-refresh timestamp.                                                  *)
C12_IssueLeavesCacheAlone ==
    [][ \A c \in Slots :
          ( \/ Begins(c) /\ calls'[c].op = "resolveIssueId"
            \/ Resumes(c) /\ calls[c].op = "resolveIssueId" )
          => ( /\ cache' = cache
               /\ lastCacheRefresh' = lastCacheRefresh
               /\ ~calls'[c].cacheRead ) ]_vars

\* an issue resolved from the API while the cache holds a team
C12_Witness ==
    /\ calls[1].op = "resolveIssueId"
    /\ calls[1].pc = "returned"
    /\ calls[1].reqs = 1
    /\ DOMAIN cache.teams = {OPS}
    /\ DOMAIN cache.projects = {} /\ DOMAIN cache.users = {}

\* the call got as far as the remote source
ReachedRemote(call) ==
    \/ call.pc \in {"awaiting", "returned"}
    \/ call.pc = "threw" /\ ~InvalidParams(call.error)

(* C13 as claimed: a resolution of a TEAM-<number> identifier makes two     *)
(* remote calls, the team by its key and then the issue by its number, and  *)
(* a repeated resolution makes the same two calls again.                    *)
C13_TwoChainedLookups ==
    \A c \in Slots :
        ( /\ calls[c].op = "resolveIssueId"
          /\ ~IsUuid(calls[c].input)
          /\ calls[c].pc = "returned" )
        => calls[c].reqs = 2

(* C13 as amended: a resolution of a TEAM-<number> identifier makes exactly *)
(* one remote call, a single query for the teams of that key with their     *)
(* issue of that number, and a repeated resolution of the same identifier   *)
(* makes that one call again.                                               *)
C13_OneLookupEachTime ==
    /\ [] ( \A c \in Slots :
              ( /\ calls[c].op = "resolveIssueId"
                /\ ~IsUuid(calls[c].input)
                /\ ReachedRemote(calls[c]) )
              => calls[c].reqs = 1 )
    /\ [][ \A c \in Slots :
             ( /\ Begins(c)
               /\ calls[c].op = "resolveIssueId"
               /\ calls[c].pc = "returned"
               /\ calls[c].reqs = 1
               /\ SameRequest(calls[c], calls'[c]) )
             => ( calls'[c].pc = "awaiting" /\ calls'[c].reqs = 1 ) ]_vars

\* the issue found by one call for the team's key and the issue's number
C13_Witness ==
    /\ calls[1].op = "resolveIssueId"
    /\ calls[1].input = IssueOps42
    /\ calls[1].pc = "returned"
    /\ calls[1].reqs = 1
    /\ calls[1].result = RemoteIssues(remote)[1].id

\* TEAM-<integer>: a hyphen, and after the first one decimal digits only
WellFormedIdentifier(s) ==
    \E i \in 1..Len(s) :
        /\ s[i] = "-"
        /\ \A j \in 1..(i - 1) : s[j] # "-"
        /\ i < Len(s)
        /\ \A j \in (i + 1)..Len(s) : IsDigit(s[j])

(* C14: resolveIssueId given an input that is neither canonical-shaped nor  *)
(* of the form TEAM-<integer> (no hyphen, or after the team key something   *)
(* that is not wholly an integer) fails with InvalidParams and makes no     *)
(* remote call.                                                             *)
C14_MalformedIdentifierRejected ==
    \A c \in Slots :
        ( /\ calls[c].op = "resolveIssueId"
          /\ ~IsUuid(calls[c].input)
          /\ ~WellFormedIdentifier(calls[c].input) )
        => ( /\ calls[c].pc = "threw"
             /\ InvalidParams(calls[c].error)
             /\ calls[c].reqs = 0 )

\* an identifier with a trailing part resolved to the issue of its leading part
C14_Witness ==
    /\ calls[1].op = "resolveIssueId"
    /\ calls[1].input = IssueOps42Dash7
    /\ calls[1].pc = "returned"
    /\ calls[1].result = RemoteIssues(remote)[1].id

----------------------------------------------------------------------------

\* the call has what it needs to go beyond its argument checks
Resolvable(call) ==
    /\ NameShaped(call)
    /\ call.op \in {"resolveStateId", "resolveLabelIds"} => ~NoTeam(call.teamId)
    /\ call.op = "resolveIssueId" => WellFormedIdentifier(call.input)

(* C15: clearCache, from any state, leaves the five maps empty and the      *)
(* timestamp at 0, for which the staleness check reports stale; the next    *)
(* lookup of a name of any kind then goes to the remote source.             *)
C15_ClearForcesRemoteLookups ==
    [][ /\ clearCache =>
              /\ cache'.teams = EmptyMap /\ cache'.projects = EmptyMap
              /\ cache'.states = EmptyMap /\ cache'.labels = EmptyMap
              /\ cache'.users = EmptyMap
              /\ lastCacheRefresh' = 0
              /\ now' - lastCacheRefresh' > cacheTimeout
        /\ \A c \in Slots :
              ( /\ Begins(c)
                /\ cache = EmptyCache /\ lastCacheRefresh = 0
                /\ Resolvable(calls'[c]) )
              => ( calls'[c].pc = "awaiting" /\ calls'[c].reqs = 1 ) ]_vars

\* the cache is empty although the last call filled it: it was cleared, and
\* time has passed since
C15_Witness ==
    /\ cache = EmptyCache
    /\ lastCacheRefresh = 0
    /\ calls[1].pc = "returned"
    /\ calls[1].op = "resolveUserId"
    /\ calls[1].reqs = 1
    /\ now > calls[1].at

----------------------------------------------------------------------------
(* LinearService.updateProject: the project is resolved first, and only the *)
(* update itself is handed to executeWithRetry.                             *)

ProjectIdRequired ==
    ApiError(400, Lit("Project ID is required"), InvalidParamsCode, NoData)

FailedToUpdate == ApiError(500, Lit("Failed to update project"), ServerErrorCode, NoData)

\* what client.updateProject does: answers, answers without a project, or throws
UpdateOutcomes == {NoError, FailedToUpdate, NetworkDown, RateLimited(<<"2">>)}

\* updateProject(params), up to the await of resolveProjectId(id)
updateProject(id) ==
    /\ svc.pc = "idle"
    /\ IF Falsy(id)
       THEN /\ svc' = [svc EXCEPT !.pc = "threw", !.operationName = "updateProject",
                                  !.id = id, !.error = ProjectIdRequired]
            /\ UNCHANGED resolverVars
       ELSE /\ svc' = [svc EXCEPT !.pc = "resolvingId", !.operationName = "updateProject",
                                  !.id = id]
            /\ resolveProjectId(1, id, Undefined)
    /\ UNCHANGED <<obs, issues>>

\* resolveProjectId has returned, and executeWithRetry is called, or it has
\* thrown, and so does updateProject
updateProject_resolved ==
    /\ svc.pc = "resolvingId"
    /\ calls[1].pc \in {"returned", "threw"}
    /\ IF calls[1].pc = "returned"
       THEN svc' = [svc EXCEPT !.pc = "attempt", !.startTime = now, !.attemptNumber = 1]
       ELSE svc' = [svc EXCEPT !.pc = "threw", !.error = calls[1].error]
    /\ UNCHANGED <<obs, issues>>

\* pRetry calls the operation, which calls client.updateProject
update_start ==
    /\ svc.pc = "attempt"
    /\ svc.operationName = "updateProject"
    /\ svc' = [svc EXCEPT !.pc = "updating", !.started = Append(@, now)]
    /\ UNCHANGED <<obs, issues>>

\* client.updateProject has answered or thrown
update_done(outcome) ==
    /\ svc.pc = "updating"
    /\ IF outcome = NoError
       THEN /\ svc' = [svc EXCEPT !.pc = "returned", !.result = "project"]
            /\ obs' = [obs EXCEPT !.latency =
                         Append(@, [operation |-> svc.operationName,
                                    duration |-> now - svc.startTime])]
       ELSE Caught(outcome)
    /\ UNCHANGED issues

UpdateProject ==
    (\E id \in {Web, NOPE, CanonicalId, << >>} : updateProject(id))
    /\ UNCHANGED <<cache, lastCacheRefresh, envVars, otherVars>>
UpdateResolverAnswer ==
    /\ svc.pc = "resolvingId"
    /\ \E failure \in LookupFailures \cup {NoError} : resolveProjectId_resume(1, failure)
    /\ UNCHANGED <<envVars, svcVars, otherVars>>
UpdateResolved == updateProject_resolved /\ UNCHANGED <<resolverVars, envVars, otherVars>>
UpdateStart == update_start /\ UNCHANGED <<resolverVars, envVars, otherVars>>
UpdateDone ==
    (\E outcome \in UpdateOutcomes : update_done(outcome))
    /\ UNCHANGED <<resolverVars, envVars, otherVars>>

NextUpdate ==
    \/ UpdateProject
    \/ UpdateResolverAnswer
    \/ UpdateResolved
    \/ UpdateStart
    \/ UpdateDone
    \/ RateLimitWait
    \/ FailedAttempt
    \/ RetryTimer

SpecUpdate == Init /\ [][NextUpdate]_vars

\* an Error that is no ApiError: what a failed request throws
Transport(e) == e.name = "Error"

(* C16: every remote call made for a service method, the resolver's lookups *)
(* included, is made within an attempt of executeWithRetry, and no          *)
(* transport failure reaches the caller as it is, without the retries.      *)
C16_RemoteCallsInsideRetry ==
    /\ (svc.pc # "idle" /\ calls[1].pc = "awaiting") => svc.attemptNumber >= 1
    /\ svc.pc = "threw" => ~Transport(svc.error)

\* the project lookup failed once and updateProject threw that error, with
\* no attempt by executeWithRetry
C16_Witness ==
    /\ svc.operationName = "updateProject"
    /\ svc.pc = "threw"
    /\ svc.error = NetworkDown
    /\ svc.attemptNumber = 0
    /\ calls[1].reqs = 1
    /\ obs.warn = << >>

----------------------------------------------------------------------------

(* C17: a call of executeWithRetry that succeeds, at the first attempt or   *)
(* after retries, has recorded exactly one latency observation, tagged with *)
(* the operation name, when it returns; a call that has not succeeded has   *)
(* recorded none.                                                           *)
C17_OneLatencyObservation ==
    IF svc.pc = "returned"
    THEN /\ Len(obs.latency) = 1
         /\ obs.latency[1].operation = svc.operationName
         /\ obs.latency[1].duration = now - svc.startTime
    ELSE Len(obs.latency) = 0

\* success at the third attempt, the two waits counted in the latency
C17_Witness ==
    /\ svc.pc = "returned"
    /\ Len(svc.started) = 3
    /\ Len(obs.latency) = 1
    /\ obs.latency[1].operation = "createIssue"
    /\ obs.latency[1].duration >= 3

\* the failures of attempts that onFailedAttempt has been called for
FailuresSeen ==
    IF svc.pc \in {"failed", "rateWait"} THEN Len(svc.failedAt) - 1 ELSE Len(svc.failedAt)

(* C18: every failed attempt of executeWithRetry, the last one included,    *)
(* leaves one failure record with the attempt number, the retries left, the *)
(* operation name and the failure message: there are as many records as     *)
(* failed attempts.                                                         *)
C18_EveryFailureRecorded ==
    /\ Len(obs.warn) = FailuresSeen
    /\ \A i \in 1..Len(obs.warn) :
          /\ obs.warn[i].attempt = i
          /\ obs.warn[i].retriesLeft = 4 - i
          /\ obs.warn[i].operationName = svc.operationName
          /\ obs.warn[i].error = svc.errors[i].message
    /\ Exhausted => Len(obs.warn) = 4

\* four failed attempts and four records, the last with no retry left
C18_Witness ==
    /\ Exhausted
    /\ Len(svc.failedAt) = 4
    /\ Len(obs.warn) = 4
    /\ obs.warn[4].attempt = 4
    /\ obs.warn[4].retriesLeft = 0
    /\ obs.warn[1].error # obs.warn[4].error

----------------------------------------------------------------------------
(* Two resolve calls in flight at once, the API's data unchanged *)

RaceTeam(c) ==
    (\E in \in {OPS, ENG} : resolveTeamId(c, in))
    /\ UNCHANGED <<envVars, svcVars, otherVars>>
RaceState(c) ==
    (\E in \in {Todo, Done} : resolveStateId(c, in, TeamA))
    /\ UNCHANGED <<envVars, svcVars, otherVars>>
RaceLabels(c) ==
    (\E in \in {<<Bug>>, <<Feature>>, <<Feature, Bug>>} : resolveLabelIds(c, in, TeamA))
    /\ UNCHANGED <<envVars, svcVars, otherVars>>
RaceAnswer(c) == Lookup(c) /\ UNCHANGED <<envVars, svcVars, otherVars>>

RaceCalls == \E c \in Slots : RaceTeam(c) \/ RaceState(c) \/ RaceLabels(c)
RaceAnswers == \E c \in Slots : RaceAnswer(c)

NextRace ==
    \/ RaceCalls
    \/ RaceAnswers

SpecRace == Init /\ [][NextRace]_vars

\* what the cache holds for the names the call was given
CachedIds(c0, call) ==
    CASE call.op = "resolveTeamId" -> << c0.teams[call.input] >>
      [] call.op = "resolveUserId" -> << c0.users[call.input] >>
      [] call.op = "resolveProjectId" ->
            << c0.projects[ProjectCacheKey(call.input, call.teamId)] >>
      [] call.op = "resolveStateId" -> << c0.states[call.teamId][call.input] >>
      [] call.op = "resolveLabelIds" ->
            [i \in 1..Len(call.inputs) |-> c0.labels[call.teamId][call.inputs[i]]]

\* the IDs the API gives for the names the call was given
RemoteIds(w, call) ==
    CASE call.op = "resolveTeamId" -> << TeamByKey(w, call.input)[1].id >>
      [] call.op = "resolveStateId" ->
            << FindByName(RemoteStates(w, call.teamId), call.input)[1].id >>
      [] call.op = "resolveLabelIds" ->
            [i \in 1..Len(call.inputs) |->
                FindByName(RemoteLabels(w, call.teamId), call.inputs[i])[1].id]

(* C19: with the API's data unchanged and calls running concurrently, every *)
(* call that has returned returned the API's ID for its name, the cache     *)
(* holds that ID for the name whatever the other call did meanwhile, and    *)
(* two calls for the same name have returned the same ID.                   *)
C19_RacingCallsAgree ==
    /\ \A c \in Slots :
          calls[c].pc = "returned" =>
              /\ Returned(calls[c]) = RemoteIds(remote, calls[c])
              /\ Cached(cache, calls[c])
              /\ CachedIds(cache, calls[c]) = Returned(calls[c])
    /\ \A c, d \in Slots :
          ( /\ calls[c].pc = "returned" /\ calls[d].pc = "returned"
            /\ SameRequest(calls[c], calls[d]) )
          => Returned(calls[c]) = Returned(calls[d])

\* both calls looked the same name up, each with a request of its own
C19_Witness ==
    /\ calls[1].pc = "returned" /\ calls[2].pc = "returned"
    /\ calls[1].op = "resolveTeamId"
    /\ calls[1].input = OPS
    /\ SameRequest(calls[1], calls[2])
    /\ calls[1].reqs = 1 /\ calls[2].reqs = 1
    /\ calls[1].result = calls[2].result
    /\ cache.teams[OPS] = calls[1].result
    /\ MapHas(cache.labels, TeamA)
    /\ DOMAIN cache.labels[TeamA] = {Bug, Feature}

----------------------------------------------------------------------------
(* resolveProjectId for the same name in two teams and in no team *)

ProjectScopes == {TeamA, TeamB, Undefined, << >>}

ProjectResolve ==
    (\E in \in {Web, NOPE}, t \in ProjectScopes : resolveProjectId(1, in, t))
    /\ UNCHANGED <<envVars, svcVars, otherVars>>
ProjectAnswer ==
    (\E failure \in LookupFailures \cup {NoError} : resolveProjectId_resume(1, failure))
    /\ UNCHANGED <<envVars, svcVars, otherVars>>

NextProjects ==
    \/ ProjectResolve
    \/ ProjectAnswer
    \/ Clear
    \/ Advance
    \/ Change

SpecProjects == Init /\ [][NextProjects]_vars

\* the key of a name in a team scope, and of a name in no scope
ScopedKey(name, teamId) ==
    IF NoTeam(teamId) THEN name ELSE teamId \o <<":">> \o name

\* the IDs the API gives, in any of its worlds, to a lookup of the name in
\* the scope
ProjectIdsNamed(name, teamId) ==
    UNION { IdsOf(ProjectsByNameAndTeam(w, name, teamId)) : w \in Worlds }

(* C20: a project name resolved in two team scopes has an entry of its own  *)
(* for each: every entry holds an ID the API gave for that name in that     *)
(* scope, a resolution returns an ID of its own scope, and it leaves the    *)
(* entries of the other scopes as they were.                                *)
C20_ProjectScopesIsolated ==
    /\ [] ( /\ \A k \in DOMAIN cache.projects :
                  \E n \in {Web, NOPE}, t \in ProjectScopes :
                      /\ k = ScopedKey(n, t)
                      /\ cache.projects[k] \in ProjectIdsNamed(n, t)
            /\ \A c \in Slots :
                  (calls[c].op = "resolveProjectId" /\ calls[c].pc = "returned") =>
                      calls[c].result \in ProjectIdsNamed(calls[c].input, calls[c].teamId) )
    /\ [][ \A c \in Slots :
             (Resumes(c) /\ calls[c].op = "resolveProjectId") =>
                 \A k \in (DOMAIN cache.projects)
                             \ {ScopedKey(calls[c].input, calls[c].teamId)} :
                     MapHas(cache'.projects, k) /\ cache'.projects[k] = cache.projects[k] ]_vars

\* the same name cached for both teams, each with the ID of its own project
C20_Witness ==
    /\ MapHas(cache.projects, ScopedKey(Web, TeamA))
    /\ MapHas(cache.projects, ScopedKey(Web, TeamB))
    /\ cache.projects[ScopedKey(Web, TeamA)] \in ProjectIdsNamed(Web, TeamA)
    /\ cache.projects[ScopedKey(Web, TeamB)] \in ProjectIdsNamed(Web, TeamB)
    /\ cache.projects[ScopedKey(Web, TeamA)] # cache.projects[ScopedKey(Web, TeamB)]
    /\ calls[1].op = "resolveProjectId" /\ calls[1].pc = "returned"

----------------------------------------------------------------------------
(* The webhook handler (handlers/webhook.ts) *)

Issue == <<"I","s","s","u","e">>
create == <<"c","r","e","a","t","e">>
Secret1 == <<"s","3","c","r","e","t">>
Secret2 == <<"o","t","h","e","r">>

\* req.body as Linear sends it: { action, type, data: { id } }, any of them
\* left out
WebhookBodies ==
    [action : {create, Undefined}, type : {Issue, Undefined},
     dataId : {CanonicalId, Undefined}]

\* one member of an object literal, left out by JSON.stringify if undefined
JSONMember(key, value) ==
    IF value = Undefined THEN << >>
    ELSE Lit("\"" \o key \o "\":\"") \o value \o Lit("\",")

\* JSON.stringify(req.body)
JSONStringify(body) ==
    Lit("{") \o JSONMember("action", body.action) \o JSONMember("type", body.type)
             \o JSONMember("data.id", body.dataId) \o Lit("}")

\* crypto.createHmac('sha256', key).update(payload).digest('hex'): the digest
\* is kept symbolic, one value for each key and payload
Hmac(key, payload) == Lit("hmac-sha256:") \o key \o Lit(":") \o payload

\* !x for a string: undefined and '' are falsy
Truthy(s) == s # Undefined /\ s # << >>

InvalidSignature == ApiError(401, Lit("Invalid webhook signature"), "none", NoData)

\* type.toLowerCase() or action.toLowerCase() on undefined
TypeErrorUndefined ==
    TransportError(Lit("Cannot read properties of undefined (reading 'toLowerCase')"),
                   0, << >>)

\* if (webhookSecret && signature)
SignatureChecked(webhookSecret, signature) ==
    Truthy(webhookSecret) /\ Truthy(signature)

MaxNotifications == 2

\* the handler, from the request to res.status(200) or next(error)
webhookHandler(webhookSecret, signature, body) ==
    /\ Len(sse) < MaxNotifications
    /\ args' = [fn |-> "webhook", webhookSecret |-> webhookSecret,
                signature |-> signature, body |-> body]
    /\ LET payload == JSONStringify(body)
           expectedSignature == Hmac(webhookSecret, payload)
           notification ==
               [type |-> "mcp.notification", method |-> "linear.webhook",
                entityType |-> toLowerCase(body.type),
                entityId |-> IF Falsy(body.dataId) THEN Lit("unknown") ELSE body.dataId,
                action |-> toLowerCase(body.action),
                timestamp |-> now]
       IN  IF SignatureChecked(webhookSecret, signature)
              /\ signature # expectedSignature
           THEN /\ ret' = [done |-> TRUE, status |-> 401, error |-> InvalidSignature]
                /\ sse' = sse
           ELSE IF body.type = Undefined \/ body.action = Undefined
           THEN /\ ret' = [done |-> TRUE, status |-> 500, error |-> TypeErrorUndefined]
                /\ sse' = sse
           ELSE /\ sse' = Append(sse, notification)
                /\ ret' = [done |-> TRUE, status |-> 200, error |-> NoError]
    /\ UNCHANGED <<awaitingAtClear, sseVars, credVars>>

WebhookSecrets == {Undefined, Secret1, Secret2}

\* the linear-signature header: absent, empty, or the digest of some body
\* under some secret
WebhookSignatures(body) ==
    {Undefined, << >>}
    \cup {Hmac(k, JSONStringify(b)) :
             k \in {Secret1, Secret2},
             b \in {body, [body EXCEPT !.dataId = Uuid("0", "7")]}}

Webhook ==
    (\E webhookSecret \in WebhookSecrets, body \in WebhookBodies :
        \E signature \in WebhookSignatures(body) :
            webhookHandler(webhookSecret, signature, body))
    /\ UNCHANGED <<resolverVars, envVars, svcVars>>

NextWebhook ==
    \/ Webhook

SpecWebhook == Init /\ [][NextWebhook]_vars

\* the request just handled carried the HMAC-SHA256 of its payload under the
\* configured secret
SignedRight(request) ==
    request.signature =
        Lit("hmac-sha256:") \o request.webhookSecret \o Lit(":")
                             \o JSONStringify(request.body)

\* C21: with WEBHOOK_SECRET configured, a request is broadcast only if its
\* signature is the HMAC-SHA256 of its payload under the secret; every other
\* request is rejected (401) and nothing is broadcast
C21_OnlySignedRequestsBroadcast ==
    [][args'.fn = "webhook"
       /\ Truthy(args'.webhookSecret) /\ ~SignedRight(args')
       => sse' = sse /\ ret'.status = 401]_vars

\* C21: a secret is configured, the request has no linear-signature header at
\* all, and its notification went out to the SSE clients with a 200
C21_Witness ==
    /\ args.fn = "webhook"
    /\ args.webhookSecret = Secret1
    /\ args.signature = Undefined
    /\ ret.status = 200
    /\ Len(sse) = 1
    /\ sse[1].entityId = args.body.dataId

----------------------------------------------------------------------------
(* The method registry of LinearService *)

\* registerMethods(): the pairs given to this.methodHandlers.set, in order
registerMethods ==
    << <<"linear.issues.list", "listIssues">>,
       <<"linear.issues.get", "getIssueMarkdown">>,
       <<"linear.issues.create", "createIssue">>,
       <<"linear.issues.update", "updateIssue">>,
       <<"linear.issues.delete", "deleteIssue">>,
       <<"linear.issues.search", "searchIssues">>,
       <<"linear.comments.list", "listComments">>,
       <<"linear.comments.create", "createComment">>,
       <<"linear.projects.list", "listProjects">>,
       <<"linear.projects.get", "getProject">>,
       <<"linear.projects.create", "createProject">>,
       <<"linear.projects.update", "updateProject">>,
       <<"linear.cycles.list", "listCycles">>,
       <<"linear.cycles.get", "getCycle">>,
       <<"linear.teams.list", "listTeams">>,
       <<"linear.teams.get", "getTeam">>,
       <<"linear.states.list", "listStates">>,
       <<"linear.labels.list", "listLabels">>,
       <<"linear.users.list", "listUsers">>,
       <<"linear.users.get", "getUser">>,
       <<"linear.users.me", "getCurrentUser">>,
       <<"linear.capabilities", "getCapabilities">>,
       <<"linear.file_history", "getFileHistory">> >>

\* Map.prototype.set, one pair after the other: the last one for a key stays
RECURSIVE SetAll(_, _)
SetAll(m, pairs) ==
    IF pairs = << >> THEN m
    ELSE SetAll(MapSet(m, Head(pairs)[1], Head(pairs)[2]), Tail(pairs))

\* this.methodHandlers once the constructor has run
methodHandlers == SetAll(EmptyMap, registerMethods)

NoHandler == "undefined"

\* getMethodHandler(method): this.methodHandlers.get(method)
getMethodHandler(method) ==
    IF MapHas(methodHandlers, method) THEN methodHandlers[method] ELSE NoHandler

\* the methods the test 'should have all expected methods registered' lists
expectedMethods ==
    {"linear.issues.list", "linear.issues.get", "linear.issues.create",
     "linear.issues.update", "linear.issues.delete", "linear.issues.markdown",
     "linear.issues.search", "linear.comments.list", "linear.comments.create",
     "linear.projects.list", "linear.projects.get", "linear.projects.create",
     "linear.projects.update", "linear.cycles.list", "linear.cycles.get",
     "linear.teams.list", "linear.teams.get", "linear.states.list",
     "linear.labels.list", "linear.users.list", "linear.users.get",
     "linear.users.me", "linear.capabilities"}

\* the methods the README lists under Available RPC Methods
ReadmeMethods ==
    {"linear.issues.list", "linear.issues.get", "linear.issues.create",
     "linear.issues.update", "linear.issues.delete", "linear.issues.markdown",
     "linear.comments.list", "linear.comments.create",
     "linear.projects.list", "linear.projects.get", "linear.projects.create",
     "linear.projects.update", "linear.teams.list", "linear.teams.get",
     "linear.cycles.list", "linear.users.get", "linear.users.list",
     "linear.users.me", "linear.capabilities"}

MethodNames ==
    expectedMethods \cup ReadmeMethods
    \cup {"linear.file_history", "invalid.method", "linear.issues", ""}

MaxLookups == 2

\* a caller asks for one handler after the other; ret keeps what it got
GetMethodHandler ==
    /\ \E method \in MethodNames :
          /\ args' = [fn |-> "getMethodHandler", method |-> method]
          /\ ret' = [done |-> TRUE, handler |-> getMethodHandler(method),
                     handlers |-> IF ret.done
                                  THEN Append(ret.handlers, getMethodHandler(method))
                                  ELSE << getMethodHandler(method) >>]
    /\ ret.done => Len(ret.handlers) < MaxLookups
    /\ UNCHANGED <<resolverVars, envVars, svcVars, sse, awaitingAtClear,
                 sseVars, credVars>>

NextRegistry ==
    \/ GetMethodHandler

SpecRegistry == Init /\ [][NextRegistry]_vars

\* C22: getMethodHandler returns a handler for every method the README and
\* the test list as available, and undefined for every name never registered
C22_ListedMethodsHaveHandlers ==
    args.fn = "getMethodHandler" =>
        /\ args.method \in expectedMethods \cup ReadmeMethods
              => ret.handler # NoHandler
        /\ (\A i \in 1..Len(registerMethods) : registerMethods[i][1] # args.method)
              => ret.handler = NoHandler

\* C22: the handler of linear.issues.markdown was asked for, and undefined
\* came back
C22_Witness ==
    /\ args.fn = "getMethodHandler"
    /\ args.method = "linear.issues.markdown"
    /\ ret.done
    /\ ret.handler = NoHandler

----------------------------------------------------------------------------
(* smartChunkText *)

\* the characters \s matches, of those the texts below are made of
Whitespace == {" ", "\n"}
\* [.!?]
Terminators == {".", "!", "?"}
Newline == {"\n"}

\* how many characters from position i on are in the set
RECURSIVE RunLen(_, _, _)
RunLen(s, i, set) ==
    IF i > Len(s) \/ s[i] \notin set THEN 0 ELSE 1 + RunLen(s, i + 1, set)

\* how many characters from position i on are not in the set
RECURSIVE RunLenNot(_, _, _)
RunLenNot(s, i, set) ==
    IF i > Len(s) \/ s[i] \in set THEN 0 ELSE 1 + RunLenNot(s, i + 1, set)

\* s.split(re), re matching every run of minRun or more characters of seps:
\* /\n\n+/ is SplitRuns(s, Newline, 2, 1, << >>),
\* /\s+/   is SplitRuns(s, Whitespace, 1, 1, << >>)
RECURSIVE SplitRuns(_, _, _, _, _)
SplitRuns(s, seps, minRun, i, piece) ==
    IF i > Len(s) THEN << piece >>
    ELSE LET r == RunLen(s, i, seps)
         IN  IF r >= minRun
             THEN << piece >> \o SplitRuns(s, seps, minRun, i + r, << >>)
             ELSE IF r > 0
             THEN SplitRuns(s, seps, minRun, i + r, piece \o SubSeq(s, i, i + r - 1))
             ELSE SplitRuns(s, seps, minRun, i + 1, Append(piece, s[i]))

\* paragraph.match(/[^.!?]+[.!?]+/g), from position i on: an empty sequence
\* where match returns null
RECURSIVE MatchSentences(_, _)
MatchSentences(paragraph, i) ==
    LET j == i + RunLen(paragraph, i, Terminators)
        k == j + RunLenNot(paragraph, j, Terminators)
        t == RunLen(paragraph, k, Terminators)
    IN  IF j > Len(paragraph) \/ t = 0 THEN << >>
        ELSE << SubSeq(paragraph, j, k + t - 1) >>
             \o MatchSentences(paragraph, k + t)

\* String.prototype.trim
RECURSIVE TrimEnd(_)
TrimEnd(s) ==
    IF s # << >> /\ s[Len(s)] \in Whitespace
    THEN TrimEnd(SubSeq(s, 1, Len(s) - 1)) ELSE s
Trim(s) ==
    LET t == TrimEnd(s) IN SubSeq(t, 1 + RunLen(t, 1, Whitespace), Len(t))

\* word.substring(from) and word.substring(0, to), from and to not negative
Min(a, b) == IF a < b THEN a ELSE b
SubstringTo(s, to) == SubSeq(s, 1, Min(to, Len(s)))
SubstringFrom(s, from) == SubSeq(s, from + 1, Len(s))

Space == <<" ">>
ParagraphBreak == <<"\n", "\n">>

\* for (const word of words) { ... } : chunks and wordChunk after the loop
RECURSIVE WordLoop(_, _, _, _)
WordLoop(words, chunks, wordChunk, effectiveMaxLength) ==
    IF words = << >> THEN [chunks |-> chunks, wordChunk |-> wordChunk]
    ELSE LET word == Head(words)
         IN  IF Len(wordChunk) + 1 + Len(word) > effectiveMaxLength
             THEN IF wordChunk # << >>
                  THEN WordLoop(Tail(words), Append(chunks, Trim(wordChunk)), word,
                                effectiveMaxLength)
                  ELSE WordLoop(Tail(words),
                                Append(chunks, SubstringTo(word, effectiveMaxLength)),
                                SubstringFrom(word, effectiveMaxLength),
                                effectiveMaxLength)
             ELSE WordLoop(Tail(words), chunks,
                           IF wordChunk # << >> THEN wordChunk \o Space \o word
                           ELSE word,
                           effectiveMaxLength)

\* for (const sentence of sentences) { ... } : chunks and currentChunk after it
RECURSIVE SentenceLoop(_, _, _, _)
SentenceLoop(sentences, chunks, currentChunk, effectiveMaxLength) ==
    IF sentences = << >> THEN [chunks |-> chunks, currentChunk |-> currentChunk]
    ELSE LET sentence == Head(sentences)
             byWords == WordLoop(SplitRuns(sentence, Whitespace, 1, 1, << >>),
                                 chunks, << >>, effectiveMaxLength)
         IN  IF Len(sentence) > effectiveMaxLength
             THEN SentenceLoop(Tail(sentences), byWords.chunks,
                               IF byWords.wordChunk # << >> THEN byWords.wordChunk
                               ELSE currentChunk,
                               effectiveMaxLength)
             ELSE IF Len(currentChunk) + 1 + Len(sentence) > effectiveMaxLength
             THEN SentenceLoop(Tail(sentences), Append(chunks, Trim(currentChunk)),
                               sentence, effectiveMaxLength)
             ELSE SentenceLoop(Tail(sentences), chunks,
                               IF currentChunk # << >>
                               THEN currentChunk \o Space \o sentence ELSE sentence,
                               effectiveMaxLength)

\* for (const paragraph of paragraphs) { ... } : chunks and currentChunk after it
RECURSIVE ParagraphLoop(_, _, _, _)
ParagraphLoop(paragraphs, chunks, currentChunk, effectiveMaxLength) ==
    IF paragraphs = << >> THEN [chunks |-> chunks, currentChunk |-> currentChunk]
    ELSE LET paragraph == Head(paragraphs)
             flushed == IF currentChunk # << >>
                        THEN Append(chunks, Trim(currentChunk)) ELSE chunks
             matched == MatchSentences(paragraph, 1)
             sentences == IF matched = << >> THEN << paragraph >> ELSE matched
             bySentences == SentenceLoop(sentences, flushed, << >>, effectiveMaxLength)
         IN  IF Len(paragraph) > effectiveMaxLength
             THEN ParagraphLoop(Tail(paragraphs), bySentences.chunks,
                                bySentences.currentChunk, effectiveMaxLength)
             ELSE IF Len(currentChunk) + 2 + Len(paragraph) > effectiveMaxLength
             THEN ParagraphLoop(Tail(paragraphs), Append(chunks, Trim(currentChunk)),
                                paragraph, effectiveMaxLength)
             ELSE ParagraphLoop(Tail(paragraphs), chunks,
                                IF currentChunk # << >>
                                THEN currentChunk \o ParagraphBreak \o paragraph
                                ELSE paragraph,
                                effectiveMaxLength)

\* the space kept for headers and footers
Reserved == 100

smartChunkText(text, maxLength) ==
    LET effectiveMaxLength == maxLength - Reserved
        done == ParagraphLoop(SplitRuns(text, Newline, 2, 1, << >>), << >>, << >>,
                              effectiveMaxLength)
    IN  IF Len(text) <= effectiveMaxLength THEN << text >>
        ELSE IF done.currentChunk # << >>
             THEN Append(done.chunks, Trim(done.currentChunk))
             ELSE done.chunks

\* the texts: every string of up to MaxTextLen of these characters
TextChars == {"a", "b", " ", ".", "\n"}
MaxTextLen == 6
Texts == UNION {[1..n -> TextChars] : n \in 0..MaxTextLen}
\* limits that leave 2 and 3 characters to a chunk
MaxLengths == {Reserved + 2, Reserved + 3}

InitChunk ==
    /\ cache = EmptyCache
    /\ lastCacheRefresh = 0
    /\ calls = [c \in Slots |-> IdleCall]
    /\ now = ProcessStart
    /\ remote = 1
    /\ svc = IdleSvc
    /\ obs = NoObs
    /\ issues = 0
    /\ args \in [fn : {"smartChunkText"}, text : Texts, maxLength : MaxLengths]
    /\ ret = NoRet
    /\ sse = << >>
    /\ awaitingAtClear = {}
    /\ connections = EmptyMap
    /\ activeSSEConnections = 0
    /\ responses = << >>
    /\ heartbeatInterval = "set"
    /\ credentialsFile = NoFile
    /\ credOps = NoCredOps

SmartChunkText ==
    /\ args.fn = "smartChunkText"
    /\ ~ret.done
    /\ ret' = [done |-> TRUE, chunks |-> smartChunkText(args.text, args.maxLength)]
    /\ UNCHANGED <<resolverVars, envVars, svcVars, args, sse, awaitingAtClear,
                 sseVars, credVars>>

NextChunk ==
    \/ SmartChunkText

SpecChunk == InitChunk /\ [][NextChunk]_vars

\* the words of a text: what lies between its whitespace
NonEmpty(s) == s # << >>
Words(text) == SelectSeq(SplitRuns(text, Whitespace, 1, 1, << >>), NonEmpty)

RECURSIVE Concat(_)
Concat(seqs) == IF seqs = << >> THEN << >> ELSE Head(seqs) \o Concat(Tail(seqs))

\* where the word first occurs in s at or after position from; 0 if nowhere
RECURSIVE FindFrom(_, _, _)
FindFrom(s, word, from) ==
    IF from + Len(word) - 1 > Len(s) THEN 0
    ELSE IF SubSeq(s, from, from + Len(word) - 1) = word THEN from
    ELSE FindFrom(s, word, from + 1)

\* the words occur in s one after the other, from position from on
RECURSIVE InOrder(_, _, _)
InOrder(words, s, from) ==
    \/ words = << >>
    \/ LET at == FindFrom(s, Head(words), from)
       IN  at > 0 /\ InOrder(Tail(words), s, at + Len(Head(words)))

\* C23: smartChunkText loses no content: every word of the input appears, in
\* the original order, in the concatenation of the returned chunks
C23_EveryWordKept ==
    args.fn = "smartChunkText" /\ ret.done
        => InOrder(Words(args.text), Concat(ret.chunks), 1)

\* C23: a text ending in words after its last full stop was chunked, and the
\* chunks hold none of the letters b that the text has
C23_Witness ==
    /\ args.fn = "smartChunkText"
    /\ ret.done
    /\ args.text = <<"a", ".", " ", "b", "b">>
    /\ args.maxLength = Reserved + 2
    /\ \A i \in 1..Len(ret.chunks) : \A j \in 1..Len(ret.chunks[i]) :
          ret.chunks[i][j] # "b"

\* C27: every chunk smartChunkText(text, maxLength) returns has at most
\* maxLength - 100 characters, whatever the text, a single word longer than
\* twice that bound included
C27_ChunksWithinLimit ==
    args.fn = "smartChunkText" /\ ret.done
        => \A i \in 1..Len(ret.chunks) : Len(ret.chunks[i]) <= args.maxLength - 100

\* C27: one word of five letters was chunked under a limit of two characters,
\* and the second chunk has three
C27_Witness ==
    /\ args.fn = "smartChunkText"
    /\ ret.done
    /\ args.text = <<"a", "a", "a", "a", "a">>
    /\ args.maxLength = Reserved + 2
    /\ ret.chunks = << <<"a", "a">>, <<"a", "a", "a">> >>

----------------------------------------------------------------------------
(* IssueParser (utils/issue-parser.ts) *)

UpperSet == {UpperChars[i] : i \in 1..26}
LowerSet == {LowerChars[i] : i \in 1..26}
DigitSet == {DigitChars[i] : i \in 1..10}
\* \w
WordChars == UpperSet \cup LowerSet \cup DigitSet \cup {"_"}

\* ISSUE_PATTERN = /\b([A-Z][A-Z0-9]*)-(\d+)\b/ tried at position s: where the
\* match ends and where its hyphen is, or no match.  Both runs are greedy, and
\* giving characters back cannot help: what follows [A-Z0-9]* must be the
\* hyphen, and a digit given back leaves no word boundary behind
IssuePatternAt(text, s) ==
    LET k == s + RunLen(text, s, UpperSet \cup DigitSet)
        d == RunLen(text, k + 1, DigitSet)
        e == k + d
    IN  IF /\ s <= Len(text)
           /\ text[s] \in UpperSet
           /\ (s = 1 \/ text[s - 1] \notin WordChars)
           /\ k <= Len(text) /\ text[k] = "-"
           /\ d >= 1
           /\ (e = Len(text) \/ text[e + 1] \notin WordChars)
        THEN [found |-> TRUE, hyphen |-> k, last |-> e]
        ELSE [found |-> FALSE, hyphen |-> 0, last |-> 0]

\* ISSUE_PATTERN.exec(text) with lastIndex at i - 1: the leftmost match from
\* there on, 0 where exec returns null
RECURSIVE ExecFrom(_, _)
ExecFrom(text, i) ==
    IF i > Len(text) THEN 0
    ELSE IF IssuePatternAt(text, i).found THEN i
    ELSE ExecFrom(text, i + 1)

\* the reference pushed with no look at the seen set
PushAlways(references, ref) == Append(references, ref)

\* if (!seen.has(identifier)) { seen.add(identifier); references.push(...) }
\* : seen holds the identifiers of the references pushed
PushUnseen(references, ref) ==
    IF \E i \in 1..Len(references) : references[i].identifier = ref.identifier
    THEN references
    ELSE Append(references, ref)

\* while ((match = this.ISSUE_PATTERN.exec(text)) !== null) { ... }
RECURSIVE MatchLoop(_, _, _)
MatchLoop(text, i, references) ==
    LET s == ExecFrom(text, i)
        m == IssuePatternAt(text, s)
        ref == [identifier |-> SubSeq(text, s, m.last),
                team |-> SubSeq(text, s, m.hyphen - 1),
                number |-> parseInt(SubSeq(text, m.hyphen + 1, m.last)).value]
    IN  IF s = 0 THEN references
        ELSE MatchLoop(text, m.last + 1, PushUnseen(references, ref))

extractIssueReferences(text) == MatchLoop(text, 1, << >>)

\* for (const ref of refs) if (!seen.has(ref.identifier)) ...
RECURSIVE PushAll(_, _)
PushAll(allReferences, refs) ==
    IF refs = << >> THEN allReferences
    ELSE PushAll(PushUnseen(allReferences, Head(refs)), Tail(refs))

RECURSIVE SourcesLoop(_, _)
SourcesLoop(textsToProcess, allReferences) ==
    IF textsToProcess = << >> THEN allReferences
    ELSE SourcesLoop(Tail(textsToProcess),
                     PushAll(allReferences, extractIssueReferences(Head(textsToProcess))))

\* [commitMessage, commitBody, prTitle, prBody].filter(Boolean)
extractFromMultipleSources(sources) ==
    SourcesLoop(SelectSeq(<<sources.commitMessage, sources.commitBody,
                            sources.prTitle, sources.prBody>>, Truthy),
                << >>)

\* texts put together from a few pieces, with and without a word boundary
\* between them
Ops1 == <<"O","P","S","-","1">>
Eng2 == <<"E","N","G","-","2">>
TextPieces == {Ops1, Eng2, <<"O","P","S","-","1","2">>, <<" ">>, <<"x">>, <<"-">>, <<"_">>}
MaxPieces == 4

RECURSIVE PiecedTexts(_)
PiecedTexts(n) ==
    IF n = 0 THEN {<< >>}
    ELSE PiecedTexts(n - 1)
         \cup {t \o p : t \in PiecedTexts(n - 1), p \in TextPieces}

SourceTexts ==
    {Undefined, << >>, Ops1, Eng2 \o <<" ">> \o Ops1,
     Ops1 \o <<",">> \o Eng2 \o <<" ">> \o Ops1}

InitParser ==
    /\ cache = EmptyCache
    /\ lastCacheRefresh = 0
    /\ calls = [c \in Slots |-> IdleCall]
    /\ now = ProcessStart
    /\ remote = 1
    /\ svc = IdleSvc
    /\ obs = NoObs
    /\ issues = 0
    /\ \/ args \in [fn : {"extractIssueReferences"}, text : PiecedTexts(MaxPieces)]
       \/ args \in [fn : {"extractFromMultipleSources"},
                    sources : [commitMessage : SourceTexts, commitBody : SourceTexts,
                               prTitle : SourceTexts, prBody : SourceTexts]]
    /\ ret = NoRet
    /\ sse = << >>
    /\ awaitingAtClear = {}
    /\ connections = EmptyMap
    /\ activeSSEConnections = 0
    /\ responses = << >>
    /\ heartbeatInterval = "set"
    /\ credentialsFile = NoFile
    /\ credOps = NoCredOps

ExtractIssueReferences ==
    /\ args.fn = "extractIssueReferences"
    /\ ~ret.done
    /\ ret' = [done |-> TRUE, references |-> extractIssueReferences(args.text)]
    /\ UNCHANGED <<resolverVars, envVars, svcVars, args, sse, awaitingAtClear,
                 sseVars, credVars>>

ExtractFromMultipleSources ==
    /\ args.fn = "extractFromMultipleSources"
    /\ ~ret.done
    /\ ret' = [done |-> TRUE, references |-> extractFromMultipleSources(args.sources)]
    /\ UNCHANGED <<resolverVars, envVars, svcVars, args, sse, awaitingAtClear,
                 sseVars, credVars>>

NextParser ==
    \/ ExtractIssueReferences
    \/ ExtractFromMultipleSources

SpecParser == InitParser /\ [][NextParser]_vars

\* the text has an issue reference from position s to position e: a team key
\* of capitals and digits that begins with a capital, a hyphen, digits, and
\* a word boundary on either side; the digits go as far as digits go
IsReference(text, s, e) ==
    /\ 1 <= s /\ s < e /\ e <= Len(text)
    /\ s = 1 \/ text[s - 1] \notin WordChars
    /\ e = Len(text) \/ text[e + 1] \notin WordChars
    /\ text[s] \in UpperSet
    /\ \E h \in (s + 1)..(e - 1) :
          /\ text[h] = "-"
          /\ \A j \in s..(h - 1) : text[j] \in UpperSet \cup DigitSet
          /\ \A j \in (h + 1)..e : text[j] \in DigitSet

\* where the identifier first occurs in the text as a reference; 0 if nowhere
FirstOccurrence(text, identifier) ==
    LET at == {s \in 1..Len(text) :
                  IsReference(text, s, s + Len(identifier) - 1)
                  /\ SubSeq(text, s, s + Len(identifier) - 1) = identifier}
    IN  IF at = {} THEN 0 ELSE CHOOSE s \in at : \A u \in at : s <= u

\* the texts of a call, in the order they are read, the absent ones as ''
TextsOf(call) ==
    IF call.fn = "extractIssueReferences" THEN << call.text >>
    ELSE LET Text(t) == IF t = Undefined THEN << >> ELSE t
         IN  << Text(call.sources.commitMessage), Text(call.sources.commitBody),
                Text(call.sources.prTitle), Text(call.sources.prBody) >>

\* all the texts of a call as one, a blank between one and the next
OneText(call) ==
    LET texts == TextsOf(call)
    IN  IF Len(texts) = 1 THEN texts[1]
        ELSE texts[1] \o <<" ">> \o texts[2] \o <<" ">> \o texts[3]
                      \o <<" ">> \o texts[4]

\* C24: extractIssueReferences and extractFromMultipleSources return each
\* issue identifier that occurs exactly once, in the order of first
\* occurrence, however often it occurs in the text or across the sources
C24_EachIdentifierOnceInOrder ==
    args.fn \in {"extractIssueReferences", "extractFromMultipleSources"} /\ ret.done
        => LET text == OneText(args)
               refs == ret.references
           IN  /\ \A i, j \in 1..Len(refs) :
                     i < j => /\ refs[i].identifier # refs[j].identifier
                              /\ FirstOccurrence(text, refs[i].identifier)
                                    < FirstOccurrence(text, refs[j].identifier)
               /\ \A i \in 1..Len(refs) : FirstOccurrence(text, refs[i].identifier) > 0
               /\ \A s \in 1..Len(text), e \in 1..Len(text) :
                     IsReference(text, s, e)
                        => \E i \in 1..Len(refs) :
                              refs[i].identifier = SubSeq(text, s, e)

\* C24: OPS-1 occurs in three of the four sources, twice in one of them, and
\* ENG-2 lies between; the result is OPS-1, then ENG-2
C24_Witness ==
    /\ args.fn = "extractFromMultipleSources"
    /\ ret.done
    /\ args.sources.commitMessage = Ops1
    /\ args.sources.commitBody = Ops1 \o <<",">> \o Eng2 \o <<" ">> \o Ops1
    /\ args.sources.prBody = Eng2 \o <<" ">> \o Ops1
    /\ Len(ret.references) = 2
    /\ ret.references[1] = [identifier |-> Ops1, team |-> OPS, number |-> 1]
    /\ ret.references[2].identifier = Eng2

----------------------------------------------------------------------------
(* Batches of label names, some of them unknown to the team *)

BatchLabelLists ==
    {<<Bug, Done, Feature>>, <<Done, Bug>>, <<Bug, Feature>>,
     <<Feature, NOPE, Bug, Done>>, <<Done>>, <<CanonicalId, NOPE>>}

BatchLabels ==
    (\E in \in BatchLabelLists, t \in {TeamA, TeamB, << >>} :
        resolveLabelIds(1, in, t))
    /\ UNCHANGED <<envVars, svcVars, otherVars>>
BatchState ==
    (\E in \in {Todo, NOPE}, t \in {TeamA, << >>} : resolveStateId(1, in, t))
    /\ UNCHANGED <<envVars, svcVars, otherVars>>
BatchTeam ==
    (\E in \in {OPS, NOPE} : resolveTeamId(1, in))
    /\ UNCHANGED <<envVars, svcVars, otherVars>>

NextBatch ==
    \/ BatchLabels
    \/ BatchState
    \/ BatchTeam
    \/ Answer
    \/ Clear
    \/ Change

SpecBatch == Init /\ [][NextBatch]_vars

\* the team of the call has no label of that name, letter case aside
NoSuchLabel(call, name) ==
    \A i \in 1..Len(RemoteLabels(remote, call.teamId)) :
        toLowerCase(RemoteLabels(remote, call.teamId)[i].name) # toLowerCase(name)

\* the places in the list of names to look up whose name has no label
MissingAt(call) ==
    {i \in 1..Len(call.uncachedNames) : NoSuchLabel(call, call.uncachedNames[i])}

\* the label list has come in for the call in this step
LabelsFetched(c) ==
    /\ calls[c].op = "resolveLabelIds"
    /\ calls[c].pc = "awaiting"
    /\ calls'[c].pc # "awaiting"
    /\ calls'[c].error.name # "Error"

\* the names the cache holds for the team
NamesCached(c0, teamId) ==
    IF MapHas(c0.labels, teamId) THEN DOMAIN c0.labels[teamId] ELSE {}

\* C25: in resolveLabels the first name with no case-insensitive match in the
\* fetched list aborts the whole batch with NotFound for that name: no list
\* of IDs is returned, and no name after it is looked up
C25_FirstMissingNameAborts ==
    [][\A c \in Slots :
          LabelsFetched(c) /\ MissingAt(calls[c]) # {}
          => LET names == calls[c].uncachedNames
                 first == CHOOSE i \in MissingAt(calls[c]) :
                              \A j \in MissingAt(calls[c]) : i <= j
             IN  /\ calls'[c].pc = "threw"
                 /\ calls'[c].error.statusCode = 404
                 /\ calls'[c].error.message =
                       Lit("Label \"") \o names[first] \o Lit("\" not found in team")
                 /\ calls'[c].results = << >>
                 /\ \A j \in (first + 1)..Len(names) :
                       names[j] \in NamesCached(cache', calls[c].teamId)
                       => \/ names[j] \in NamesCached(cache, calls[c].teamId)
                          \/ \E i \in 1..(first - 1) : names[i] = names[j]]_vars

\* C25: Feature, NOPE, Bug, Done was asked of team A: the call threw NotFound
\* for NOPE, and Bug, a label of the team that comes after it, is not cached
C25_Witness ==
    /\ calls[1].op = "resolveLabelIds"
    /\ calls[1].inputs = <<Feature, NOPE, Bug, Done>>
    /\ calls[1].teamId = TeamA
    /\ calls[1].pc = "threw"
    /\ calls[1].error = LabelNotFound(NOPE)
    /\ calls[1].results = << >>
    /\ Feature \in NamesCached(cache, TeamA)
    /\ Bug \notin NamesCached(cache, TeamA)

\* the call in slot c fails in this step
Fails(c) == calls[c].pc # "threw" /\ calls'[c].pc = "threw"

\* C30: a resolve call that fails (NotFound, InvalidParams or a transport
\* failure) leaves every cache map as it was before the call; a resolveLabels
\* batch that aborts on a missing name adds no label and no team map
C30_FailedCallLeavesCacheAlone ==
    [][\A c \in Slots : Fails(c) => cache' = cache]_vars

\* C30: Bug, Done, Feature was asked of team A with an empty cache and failed
\* with NotFound for Done, and the cache now maps Bug for team A
C30_Witness ==
    /\ calls[1].op = "resolveLabelIds"
    /\ calls[1].inputs = <<Bug, Done, Feature>>
    /\ calls[1].pc = "threw"
    /\ calls[1].error = LabelNotFound(Done)
    /\ MapHas(cache.labels, TeamA)
    /\ DOMAIN cache.labels[TeamA] = {Bug}
    /\ cache.teams = EmptyMap /\ cache.states = EmptyMap

----------------------------------------------------------------------------
(* Names in every letter case, two calls side by side *)

TODO == <<"T","O","D","O">>
tOdO == <<"t","O","d","O">>
bug == <<"b","u","g">>
BUG == <<"B","U","G">>
feature == <<"f","e","a","t","u","r","e">>

\* the first call is given names in several cases, the second one of each kind
CaseStateNames(c) == IF c = 1 THEN {TODO, NOPE} ELSE {tOdO}
CaseLabelLists(c) ==
    IF c = 1 THEN {<<BUG, feature>>, <<bug, NOPE>>} ELSE {<<bug, Feature>>}

CaseState(c) ==
    (\E in \in CaseStateNames(c) : resolveStateId(c, in, TeamA))
    /\ UNCHANGED <<envVars, svcVars, otherVars>>
CaseLabels(c) ==
    (\E in \in CaseLabelLists(c) : resolveLabelIds(c, in, TeamA))
    /\ UNCHANGED <<envVars, svcVars, otherVars>>
CaseAnswer(c) ==
    (\E failure \in LookupFailures \cup {NoError} :
        \/ resolveStateId_resume(c, failure)
        \/ resolveLabelIds_resume(c, failure))
    /\ UNCHANGED <<envVars, svcVars, otherVars>>

CaseStates == \E c \in Slots : CaseState(c)
CaseLabelBatches == \E c \in Slots : CaseLabels(c)
CaseAnswers == \E c \in Slots : CaseAnswer(c)

NextCase ==
    \/ CaseStates
    \/ CaseLabelBatches
    \/ CaseAnswers
    \/ Change

SpecCase == Init /\ [][NextCase]_vars

\* the entries of the list whose name is the given one, letter case aside
SameNameIn(nodes, name) ==
    {i \in 1..Len(nodes) : toLowerCase(nodes[i].name) = toLowerCase(name)}

\* the ID of the first entry of that name
FirstIdIn(nodes, name) ==
    nodes[CHOOSE i \in SameNameIn(nodes, name) :
              \A j \in SameNameIn(nodes, name) : i <= j].id

\* the list asked for has come in for the call in this step
ListFetched(c) ==
    /\ calls[c].pc = "awaiting"
    /\ calls'[c].pc # "awaiting"
    /\ calls'[c].error.name # "Error"

\* two calls of the same method for the same team whose inputs differ in
\* letter case at most
SameIgnoringCase(a, b) ==
    /\ a.op = b.op
    /\ a.op \in {"resolveStateId", "resolveLabelIds"}
    /\ a.teamId = b.teamId
    /\ toLowerCase(a.input) = toLowerCase(b.input)
    /\ Len(a.inputs) = Len(b.inputs)
    /\ \A i \in 1..Len(a.inputs) : toLowerCase(a.inputs[i]) = toLowerCase(b.inputs[i])

\* C26: resolveState and resolveLabels match names against the team's full
\* fetched list ignoring letter case: the first entry of that name gives the
\* ID, NotFound is raised only when the list has no entry of that name, and
\* two inputs that differ only in letter case resolve to the same ID
C26_NamesMatchIgnoringCase ==
    /\ [][\A c \in Slots :
             /\ ListFetched(c) /\ calls[c].op = "resolveStateId"
                => LET nodes == RemoteStates(remote, calls[c].teamId)
                   IN  IF SameNameIn(nodes, calls[c].input) = {}
                       THEN calls'[c].pc = "threw" /\ calls'[c].error.statusCode = 404
                       ELSE /\ calls'[c].pc = "returned"
                            /\ calls'[c].result = FirstIdIn(nodes, calls[c].input)
             /\ ListFetched(c) /\ calls[c].op = "resolveLabelIds"
                => LET nodes == RemoteLabels(remote, calls[c].teamId)
                       names == calls[c].uncachedNames
                   IN  IF \E i \in 1..Len(names) : SameNameIn(nodes, names[i]) = {}
                       THEN calls'[c].pc = "threw" /\ calls'[c].error.statusCode = 404
                       ELSE /\ calls'[c].pc = "returned"
                            /\ calls'[c].results =
                                  calls[c].resolvedIds
                                  \o [i \in 1..Len(names) |-> FirstIdIn(nodes, names[i])]]_vars
    /\ [](remote = 1 /\ SameIgnoringCase(calls[1], calls[2])
             /\ calls[1].pc = "returned" /\ calls[2].pc = "returned"
          => calls[1].result = calls[2].result /\ calls[1].results = calls[2].results)

\* C26: TODO and tOdO were resolved for team A: the two calls hold inputs
\* that differ in letter case and the same ID, that of the state Todo
C26_Witness ==
    /\ calls[1].op = "resolveStateId" /\ calls[2].op = "resolveStateId"
    /\ calls[1].input = TODO /\ calls[2].input = tOdO
    /\ calls[1].pc = "returned" /\ calls[2].pc = "returned"
    /\ calls[1].result = calls[2].result
    /\ calls[1].result = RemoteStates(1, TeamA)[1].id
    /\ remote = 1

----------------------------------------------------------------------------
(* createIssue with a description of more than 65000 characters *)

\* how many chunks smartChunkText made of the description
ChunkCounts == {2, 3}

\* what client.createComment does: answers, or throws
CommentOutcomes == {NoError, NetworkDown, RateLimited(<<"2">>)}

\* createIssue(params), params.description over the limit, up to the first
\* run of the operation
createIssueChunked(teamId, chunks) ==
    /\ svc.pc = "idle"
    /\ IF Falsy(teamId)
       THEN svc' = [svc EXCEPT !.pc = "threw", !.operationName = "createIssue",
                               !.teamId = teamId, !.error = TitleAndTeamRequired]
       ELSE svc' = [svc EXCEPT !.pc = "attempt", !.operationName = "createIssue",
                               !.teamId = teamId, !.startTime = now,
                               !.attemptNumber = 1, !.chunks = chunks]
    /\ UNCHANGED <<obs, issues>>

\* client.createIssue, given the first chunk, has answered or thrown
operation_createdFirst(outcome) ==
    /\ svc.pc = "creating"
    /\ svc.chunks > 0
    /\ IF outcome = NoError
       THEN /\ issues' = issues + 1
            /\ IF svc.chunks > 1
               THEN /\ svc' = [svc EXCEPT !.pc = "commenting", !.part = 1]
                    /\ obs' = obs
               ELSE /\ svc' = [svc EXCEPT !.pc = "returned", !.result = "issue"]
                    /\ obs' = [obs EXCEPT !.latency =
                                 Append(@, [operation |-> svc.operationName,
                                            duration |-> now - svc.startTime])]
       ELSE /\ issues' = issues
            /\ Caught(outcome)

\* client.createComment, given chunk i of the loop, has answered or thrown
\* (the 100 ms pause between two comments is below the clock's grain)
operation_commented(outcome) ==
    /\ svc.pc = "commenting"
    /\ IF outcome = NoError
       THEN IF svc.part + 1 < svc.chunks
            THEN /\ svc' = [svc EXCEPT !.part = @ + 1, !.comments = @ + 1]
                 /\ obs' = obs
            ELSE /\ svc' = [svc EXCEPT !.pc = "returned", !.result = "issue",
                                       !.comments = @ + 1]
                 /\ obs' = [obs EXCEPT !.latency =
                              Append(@, [operation |-> svc.operationName,
                                         duration |-> now - svc.startTime])]
       ELSE Caught(outcome)
    /\ UNCHANGED issues

CreateIssueChunked ==
    (\E teamId \in {OPS, << >>}, chunks \in ChunkCounts :
        createIssueChunked(teamId, chunks))
    /\ UNCHANGED <<resolverVars, envVars, otherVars>>
OperationCreatedFirst ==
    (\E outcome \in CreateOutcomes : operation_createdFirst(outcome))
    /\ UNCHANGED <<resolverVars, envVars, otherVars>>
OperationCommented ==
    (\E outcome \in CommentOutcomes : operation_commented(outcome))
    /\ UNCHANGED <<resolverVars, envVars, otherVars>>

NextChunked ==
    \/ CreateIssueChunked
    \/ OperationStart
    \/ ResolverAnswer
    \/ OperationResolved
    \/ OperationCreatedFirst
    \/ OperationCommented
    \/ RateLimitWait
    \/ FailedAttempt
    \/ RetryTimer

SpecChunked == Init /\ [][NextChunked]_vars

\* C28: a createIssue call creates at most one remote issue, also when a
\* later step of the operation fails and executeWithRetry runs it all again
C28_AtMostOneIssue ==
    svc.operationName = "createIssue" => issues <= 1

\* C28: one createIssue call has ended after its second attempt, each attempt
\* having created an issue: the first failed at a comment, the second did not
C28_Witness ==
    /\ svc.operationName = "createIssue"
    /\ svc.pc = "returned"
    /\ svc.attemptNumber = 2
    /\ svc.chunks = 2
    /\ issues = 2
    /\ svc.comments = 1

----------------------------------------------------------------------------
(* clearCache while resolve calls are awaiting their lookups *)

\* a call begins in slot c: whatever awaited there at the last clear is over
StartTeam(c) ==
    /\ resolveTeamId(c, OPS)
    /\ awaitingAtClear' = awaitingAtClear \ {c}
    /\ UNCHANGED <<envVars, svcVars, args, ret, sse, sseVars, credVars>>
StartLabels(c) ==
    /\ resolveLabelIds(c, <<Bug>>, TeamA)
    /\ awaitingAtClear' = awaitingAtClear \ {c}
    /\ UNCHANGED <<envVars, svcVars, args, ret, sse, sseVars, credVars>>
Finish(c) == Lookup(c) /\ UNCHANGED <<envVars, svcVars, otherVars>>

\* clearCache(), and the note of who was awaiting when it ran
ClearDuring ==
    /\ clearCache
    /\ awaitingAtClear' = {c \in Slots : calls[c].pc = "awaiting"}
    /\ UNCHANGED <<envVars, svcVars, args, ret, sse, sseVars, credVars>>

StartTeams == \E c \in Slots : StartTeam(c)
StartLabelBatches == \E c \in Slots : StartLabels(c)
Finishes == \E c \in Slots : Finish(c)

NextClear ==
    \/ StartTeams
    \/ StartLabelBatches
    \/ Finishes
    \/ ClearDuring
    \/ Change

SpecClear == Init /\ [][NextClear]_vars

\* C29: after clearCache every entry that appears in the cache comes from a
\* lookup issued after the clear: a call that was awaiting its lookup when
\* clearCache ran does not put its result into the cache
C29_ClearedCallsDoNotReinsert ==
    [][\A c \in awaitingAtClear :
          calls[c].pc = "awaiting" /\ calls'[c].pc # "awaiting" => cache' = cache]_vars

\* C29: the call in slot 1 was awaiting the team OPS when the cache was
\* cleared, has returned since, and the cache holds its entry; no other call
\* has been made
C29_Witness ==
    /\ awaitingAtClear = {1}
    /\ calls[1].op = "resolveTeamId"
    /\ calls[1].pc = "returned"
    /\ calls[2].pc = "idle"
    /\ MapHas(cache.teams, OPS)
    /\ cache.teams[OPS] = calls[1].result

----------------------------------------------------------------------------
(* The end of the last attempt *)

\* the attempt that has just failed is the last one pRetry makes
LastAttemptFailed ==
    /\ svc.attemptNumber = 4
    /\ svc.pc \in {"rateWait", "failed"}

\* C31: executeWithRetry never waits after its final (4th) failed attempt:
\* once no retry remains the failure is raised with no sleep before it,
\* neither for a rate-limit hint nor for a backoff
C31_NoWaitAfterLastAttempt ==
    [][LastAttemptFailed => now' = now]_vars

\* C31: the fourth attempt was answered 429 with Retry-After: 2, and the call
\* threw two seconds after that attempt had failed
C31_Witness ==
    /\ svc.pc = "threw"
    /\ svc.attemptNumber = 4
    /\ Len(svc.failedAt) = 4
    /\ svc.thrown = RateLimited(<<"2">>)
    /\ now = svc.failedAt[4] + 2

----------------------------------------------------------------------------
(* The project cache key, for names and team IDs with a colon in them *)

Colon == <<":">>
ShortTeam == <<"t">>
KeyNames == {Web, Mail, TeamA \o Colon \o Web, <<"b">> \o Colon \o Web,
             ShortTeam \o Colon \o Mail}
KeyTeams == {Undefined, << >>, TeamA, TeamB, ShortTeam, ShortTeam \o Colon \o <<"b">>}

\* two lookups of a project, each with its name and its scope
KeyRequests == [projectNameOrId : KeyNames, teamId : KeyTeams]

InitKeys ==
    /\ cache = EmptyCache
    /\ lastCacheRefresh = 0
    /\ calls = [c \in Slots |-> IdleCall]
    /\ now = ProcessStart
    /\ remote = 1
    /\ svc = IdleSvc
    /\ obs = NoObs
    /\ issues = 0
    /\ args \in [fn : {"cacheKey"}, first : KeyRequests, second : KeyRequests]
    /\ ret = NoRet
    /\ sse = << >>
    /\ awaitingAtClear = {}
    /\ connections = EmptyMap
    /\ activeSSEConnections = 0
    /\ responses = << >>
    /\ heartbeatInterval = "set"
    /\ credentialsFile = NoFile
    /\ credOps = NoCredOps

\* const cacheKey = ... , for the one lookup and for the other
CacheKeys ==
    /\ args.fn = "cacheKey"
    /\ ~ret.done
    /\ ret' = [done |-> TRUE,
               first |-> ProjectCacheKey(args.first.projectNameOrId, args.first.teamId),
               second |-> ProjectCacheKey(args.second.projectNameOrId,
                                          args.second.teamId)]
    /\ UNCHANGED <<resolverVars, envVars, svcVars, args, sse, awaitingAtClear,
                 sseVars, credVars>>

NextKeys ==
    \/ CacheKeys

SpecKeys == InitKeys /\ [][NextKeys]_vars

\* the one lookup names a team and the other none, or they name two teams
ScopesDiffer(a, b) ==
    \/ NoTeam(a.teamId) /\ ~NoTeam(b.teamId)
    \/ ~NoTeam(a.teamId) /\ NoTeam(b.teamId)
    \/ ~NoTeam(a.teamId) /\ ~NoTeam(b.teamId) /\ a.teamId # b.teamId

\* C32: the project cache key is injective over scopes: a lookup without a
\* team and one with a team, or two lookups under different teams, never get
\* the same key, whatever the names and team IDs, colons in them included
C32_KeysOfScopesDiffer ==
    args.fn = "cacheKey" /\ ret.done /\ ScopesDiffer(args.first, args.second)
        => ret.first # ret.second

\* C32: the project named <team A>:Web looked up with no team, and the
\* project Web looked up in team A, got one and the same key
C32_Witness ==
    /\ args.fn = "cacheKey"
    /\ ret.done
    /\ args.first = [projectNameOrId |-> TeamA \o Colon \o Web, teamId |-> Undefined]
    /\ args.second = [projectNameOrId |-> Web, teamId |-> TeamA]
    /\ ret.first = ret.second

(***************************************************************************)
(* The SSE registry.  A stream request registers its Response under a      *)
(* client ID; the close event of the request, the close event of the       *)
(* response and a write that throws all call removeConnection with that    *)
(* client ID.                                                              *)
(***************************************************************************)

MaxStreams == 3

\* the x-client-id header of a stream request: absent, or the ID of a tab
Tab == <<"t", "a", "b">>
ClientIdHeaders == {Undefined, Tab}

\* uuidv4(): an ID no other request has
uuidv4(n) == Uuid("c", <<"1", "2", "3", "4">>[n])

\* metrics.activeSSEConnections.set(this.connections.size)
Size(m) == Cardinality(DOMAIN m)

\* Map.prototype.delete
MapDelete(m, k) == [x \in (DOMAIN m) \ {k} |-> m[x]]

\* the entries left after removeConnection for each client in gone
RemoveAll(m, gone) == [x \in (DOMAIN m) \ gone |-> m[x]]

\* addConnection(clientId, res)
addConnection(clientId, res) ==
    /\ connections' = MapSet(connections, clientId, res)
    /\ activeSSEConnections' = Size(connections')

\* removeConnection(clientId)
removeConnection(clientId) ==
    /\ connections' = MapDelete(connections, clientId)
    /\ activeSSEConnections' = Size(connections')

\* the responses after the writes to the clients in failing have thrown
WriteFailed(failing) ==
    [r \in DOMAIN responses |->
        IF \E c \in failing : connections[c] = r
        THEN [responses[r] EXCEPT !.writeFailed = TRUE]
        ELSE responses[r]]

\* forEach over the registry: write, and removeConnection where it throws
writeAll(failing) ==
    /\ connections' = RemoveAll(connections, failing)
    /\ activeSSEConnections' =
           IF failing = {} THEN activeSSEConnections ELSE Size(connections')
    /\ responses' = WriteFailed(failing)

\* the handler of GET /stream
createStreamHandler(header) ==
    /\ Len(responses) < MaxStreams
    /\ LET res == Len(responses) + 1
           clientId == IF Truthy(header) THEN header ELSE uuidv4(res)
       IN  /\ args' = [fn |-> "addConnection", clientId |-> clientId, res |-> res]
           /\ responses' = Append(responses,
                  [clientId |-> clientId, reqClosed |-> FALSE, resClosed |-> FALSE,
                   ended |-> FALSE, writeFailed |-> FALSE])
           /\ addConnection(clientId, res)
    /\ UNCHANGED <<resolverVars, envVars, svcVars, ret, sse, awaitingAtClear,
                   heartbeatInterval, credVars>>

\* req.on('close'): the close event of the request of response res
reqClose(res) ==
    /\ res \in DOMAIN responses
    /\ ~responses[res].reqClosed
    /\ args' = [fn |-> "reqClose", res |-> res]
    /\ responses' = [responses EXCEPT ![res].reqClosed = TRUE]
    /\ removeConnection(responses[res].clientId)
    /\ UNCHANGED <<resolverVars, envVars, svcVars, ret, sse, awaitingAtClear,
                   heartbeatInterval, credVars>>

\* res.on('close'): the close event of response res
resClose(res) ==
    /\ res \in DOMAIN responses
    /\ ~responses[res].resClosed
    /\ args' = [fn |-> "resClose", res |-> res]
    /\ responses' = [responses EXCEPT ![res].resClosed = TRUE]
    /\ removeConnection(responses[res].clientId)
    /\ UNCHANGED <<resolverVars, envVars, svcVars, ret, sse, awaitingAtClear,
                   heartbeatInterval, credVars>>

\* the notification of a webhook
IssueCreated ==
    [type |-> "mcp.notification", method |-> "linear.webhook",
     entityType |-> Lit("issue"), entityId |-> Lit("unknown"),
     action |-> Lit("create"), timestamp |-> ProcessStart]

\* broadcast(notification); the writes to the clients in failing throw
broadcast(notification, failing) ==
    /\ Len(sse) < MaxNotifications
    /\ failing \subseteq DOMAIN connections
    /\ args' = [fn |-> "broadcast", failing |-> failing]
    /\ sse' = Append(sse, notification)
    /\ writeAll(failing)
    /\ UNCHANGED <<resolverVars, envVars, svcVars, ret, awaitingAtClear,
                   heartbeatInterval, credVars>>

\* sendToClient(clientId, notification); the write throws or not
sendToClient(clientId, throws) ==
    /\ args' = [fn |-> "sendToClient", clientId |-> clientId, throws |-> throws]
    /\ IF MapHas(connections, clientId) /\ throws
       THEN writeAll({clientId})
       ELSE UNCHANGED <<connections, activeSSEConnections, responses>>
    /\ UNCHANGED <<resolverVars, envVars, svcVars, ret, sse, awaitingAtClear,
                   heartbeatInterval, credVars>>

\* the callback of startHeartbeat; the writes to the clients in failing throw
heartbeat(failing) ==
    /\ heartbeatInterval = "set"
    /\ failing \subseteq DOMAIN connections
    /\ args' = [fn |-> "heartbeat", failing |-> failing]
    /\ writeAll(failing)
    /\ UNCHANGED <<resolverVars, envVars, svcVars, ret, sse, awaitingAtClear,
                   heartbeatInterval, credVars>>

\* shutdown()
shutdown ==
    /\ heartbeatInterval = "set"
    /\ args' = [fn |-> "shutdown"]
    /\ heartbeatInterval' = "cleared"
    /\ responses' = [r \in DOMAIN responses |->
                        IF \E c \in DOMAIN connections : connections[c] = r
                        THEN [responses[r] EXCEPT !.ended = TRUE]
                        ELSE responses[r]]
    /\ connections' = EmptyMap
    /\ UNCHANGED <<resolverVars, envVars, svcVars, ret, sse, awaitingAtClear,
                   activeSSEConnections, credVars>>

CreateStream == \E header \in ClientIdHeaders : createStreamHandler(header)
ReqClose == \E res \in 1..MaxStreams : reqClose(res)
ResClose == \E res \in 1..MaxStreams : resClose(res)
Broadcast == \E failing \in SUBSET (DOMAIN connections) : broadcast(IssueCreated, failing)
SendToClient == \E throws \in BOOLEAN : sendToClient(Tab, throws)
Heartbeat == \E failing \in SUBSET (DOMAIN connections) : heartbeat(failing)

NextSse ==
    \/ CreateStream
    \/ ReqClose
    \/ ResClose
    \/ Broadcast
    \/ SendToClient
    \/ Heartbeat
    \/ shutdown

SpecSse == Init /\ [][NextSse]_vars

\* C33: when a client has reconnected under the same client ID, the close
\* event of the earlier connection leaves every other registered connection
\* in the registry: a close event unregisters only the connection it is of.
C33_CloseRemovesOnlyItsOwn ==
    [][args'.fn \in {"reqClose", "resClose"}
       => \A c \in DOMAIN connections :
              connections[c] # args'.res
              => MapHas(connections', c) /\ connections'[c] = connections[c]]_vars

\* C33: the client has connected twice under one ID, the first connection
\* has just closed, the second is open and no write to it has thrown, and
\* the registry no longer holds it.
C33_Witness ==
    /\ Len(responses) = 2
    /\ responses[1].clientId = Tab /\ responses[2].clientId = Tab
    /\ args = [fn |-> "resClose", res |-> 1]
    /\ ~responses[1].reqClosed
    /\ ~responses[2].reqClosed /\ ~responses[2].resClosed
    /\ ~responses[2].ended /\ ~responses[2].writeFailed
    /\ heartbeatInterval = "set"
    /\ ~MapHas(connections, Tab)

\* C34: the active-connections gauge equals the number of connections in
\* the registry, after every operation of the SSEManager.
C34_GaugeIsRegistrySize == activeSSEConnections = Size(connections)

\* C34: shutdown has just emptied a registry of two connections and the
\* gauge still says two.
C34_Witness ==
    /\ args = [fn |-> "shutdown"]
    /\ connections = EmptyMap
    /\ activeSSEConnections = 2

(***************************************************************************)
(* The credentials store.  Every function loads the whole store from the   *)
(* file, changes its copy and saves the whole copy; removeWorkspace and    *)
(* refreshWorkspaceToken await a network call between the load and the     *)
(* save.  A stored workspace is kept here as its key and its two tokens.   *)
(***************************************************************************)

Null == <<"null">>

\* the store loadCredentials() gives when there is no file
EmptyStore == [activeWorkspace |-> Null, workspaces |-> EmptyMap]

\* loadCredentials()
loadCredentials == IF credentialsFile = NoFile THEN EmptyStore ELSE credentialsFile

\* the names every object inherits from Object.prototype, two of them
constructor == <<"c", "o", "n", "s", "t", "r", "u", "c", "t", "o", "r">>
toString == <<"t", "o", "S", "t", "r", "i", "n", "g">>
ObjectPrototype == {constructor, toString}

\* what workspaces[urlKey] gives for a name of Object.prototype: a function,
\* which has neither an accessToken nor a refreshToken
Inherited == [urlKey |-> Undefined, accessToken |-> Undefined, refreshToken |-> Undefined]

\* whether credentials.workspaces[urlKey] is truthy: an own property or an
\* inherited one
Has(workspaces, urlKey) ==
    urlKey \in DOMAIN workspaces \/ urlKey \in ObjectPrototype

\* credentials.workspaces[urlKey], where it is not undefined
Get(workspaces, urlKey) ==
    IF urlKey \in DOMAIN workspaces THEN workspaces[urlKey] ELSE Inherited

\* !credentials.activeWorkspace
NoActive(credentials) ==
    credentials.activeWorkspace = Null \/ Falsy(credentials.activeWorkspace)

\* Object.keys(workspaces)[0] over the keys of the model, or null when there is none
FirstKey(workspaces, order) ==
    IF DOMAIN workspaces = {} THEN Null
    ELSE LET i == CHOOSE i \in 1..Len(order) :
                      /\ order[i] \in DOMAIN workspaces
                      /\ \A j \in 1..(i - 1) : order[j] \notin DOMAIN workspaces
         IN  order[i]

\* the copy after storeWorkspace's changes
Stored(credentials, urlKey, tokens) ==
    [activeWorkspace |-> IF NoActive(credentials) THEN urlKey
                         ELSE credentials.activeWorkspace,
     workspaces |-> MapSet(credentials.workspaces, urlKey,
                           [urlKey |-> urlKey, accessToken |-> tokens.accessToken,
                            refreshToken |-> tokens.refreshToken])]

\* the copy after removeWorkspace's changes
Removed(credentials, urlKey, order) ==
    LET remaining == MapDelete(credentials.workspaces, urlKey)
    IN  [activeWorkspace |-> IF credentials.activeWorkspace = urlKey
                             THEN FirstKey(remaining, order)
                             ELSE credentials.activeWorkspace,
         workspaces |-> remaining]

\* the copy after refreshWorkspaceToken's changes
Refreshed(credentials, urlKey, newTokens) ==
    LET workspace == credentials.workspaces[urlKey]
    IN  [credentials EXCEPT !.workspaces[urlKey] =
            [workspace EXCEPT
                !.accessToken = newTokens.accessToken,
                !.refreshToken = IF Falsy(newTokens.refreshToken)
                                 THEN workspace.refreshToken
                                 ELSE newTokens.refreshToken]]

MaxPending == 1

\* storeWorkspace(workspace, tokens)
storeWorkspace(urlKey, tokens) ==
    /\ args' = [fn |-> "storeWorkspace", urlKey |-> urlKey, tokens |-> tokens]
    /\ ret' = [done |-> TRUE, value |-> Undefined]
    /\ credentialsFile' = Stored(loadCredentials, urlKey, tokens)
    /\ UNCHANGED <<resolverVars, envVars, svcVars, sse, awaitingAtClear, sseVars, credOps>>

\* setActiveWorkspace(urlKey)
setActiveWorkspace(urlKey) ==
    /\ args' = [fn |-> "setActiveWorkspace", urlKey |-> urlKey]
    /\ LET credentials == loadCredentials
       IN  IF ~Has(credentials.workspaces, urlKey)
           THEN /\ ret' = [done |-> TRUE, value |-> FALSE]
                /\ credentialsFile' = credentialsFile
           ELSE /\ ret' = [done |-> TRUE, value |-> TRUE]
                /\ credentialsFile' = [credentials EXCEPT !.activeWorkspace = urlKey]
    /\ UNCHANGED <<resolverVars, envVars, svcVars, sse, awaitingAtClear, sseVars, credOps>>

\* clearAllCredentials()
clearAllCredentials ==
    /\ args' = [fn |-> "clearAllCredentials"]
    /\ ret' = [done |-> TRUE, value |-> Undefined]
    /\ credentialsFile' = EmptyStore
    /\ UNCHANGED <<resolverVars, envVars, svcVars, sse, awaitingAtClear, sseVars, credOps>>

\* removeWorkspace(urlKey), up to await revokeToken(...)
removeWorkspace(urlKey) ==
    /\ args' = [fn |-> "removeWorkspace", urlKey |-> urlKey]
    /\ LET credentials == loadCredentials
       IN  IF ~Has(credentials.workspaces, urlKey)
           THEN /\ ret' = [done |-> TRUE, value |-> FALSE]
                /\ credOps' = credOps
           ELSE /\ Len(credOps) < MaxPending
                /\ ret' = NoRet
                /\ credOps' = Append(credOps,
                       [fn |-> "removeWorkspace", urlKey |-> urlKey,
                        credentials |-> credentials])
    /\ UNCHANGED <<resolverVars, envVars, svcVars, sse, awaitingAtClear, sseVars,
                   credentialsFile>>

\* credOps without its k-th element
Settle(k) == [i \in 1..(Len(credOps) - 1) |-> IF i < k THEN credOps[i] ELSE credOps[i + 1]]

\* removeWorkspace, from the end of revokeToken (fulfilled or rejected) on;
\* order is the order Object.keys gives the keys in
removeWorkspace_resume(k, order) ==
    /\ k \in DOMAIN credOps
    /\ credOps[k].fn = "removeWorkspace"
    /\ args' = [fn |-> "removeWorkspace_resume", urlKey |-> credOps[k].urlKey,
                before |-> loadCredentials]
    /\ ret' = [done |-> TRUE, value |-> TRUE]
    /\ credentialsFile' = Removed(credOps[k].credentials, credOps[k].urlKey, order)
    /\ credOps' = Settle(k)
    /\ UNCHANGED <<resolverVars, envVars, svcVars, sse, awaitingAtClear, sseVars>>

\* refreshWorkspaceToken(urlKey), up to await refreshAccessToken(...)
refreshWorkspaceToken(urlKey) ==
    /\ args' = [fn |-> "refreshWorkspaceToken", urlKey |-> urlKey]
    /\ LET credentials == loadCredentials
           workspace == Get(credentials.workspaces, urlKey)
       IN  IF ~Has(credentials.workspaces, urlKey) \/ Falsy(workspace.refreshToken)
           THEN /\ ret' = [done |-> TRUE, value |-> Null]
                /\ credOps' = credOps
           ELSE /\ Len(credOps) < MaxPending
                /\ ret' = NoRet
                /\ credOps' = Append(credOps,
                       [fn |-> "refreshWorkspaceToken", urlKey |-> urlKey,
                        credentials |-> credentials])
    /\ UNCHANGED <<resolverVars, envVars, svcVars, sse, awaitingAtClear, sseVars,
                   credentialsFile>>

\* refreshWorkspaceToken, from the end of refreshAccessToken on: newTokens,
\* or the catch when it is rejected
refreshWorkspaceToken_resume(k, rejected, newTokens) ==
    /\ k \in DOMAIN credOps
    /\ credOps[k].fn = "refreshWorkspaceToken"
    /\ args' = [fn |-> "refreshWorkspaceToken_resume", urlKey |-> credOps[k].urlKey,
                before |-> loadCredentials, rejected |-> rejected]
    /\ IF rejected
       THEN /\ ret' = [done |-> TRUE, value |-> Null]
            /\ credentialsFile' = credentialsFile
       ELSE /\ ret' = [done |-> TRUE, value |-> credOps[k].urlKey]
            /\ credentialsFile' =
                   Refreshed(credOps[k].credentials, credOps[k].urlKey, newTokens)
    /\ credOps' = Settle(k)
    /\ UNCHANGED <<resolverVars, envVars, svcVars, sse, awaitingAtClear, sseVars>>

\* two workspace keys, the tokens of a login and the tokens of a refresh
Acme == <<"a", "c", "m", "e">>
Beta == <<"b", "e", "t", "a">>
LoginTokens == [accessToken |-> Lit("A1"), refreshToken |-> Lit("R1")]
NewTokens == [accessToken |-> Lit("A2"), refreshToken |-> Undefined]
KeyOrders == {<<Acme, Beta>>}
WorkspaceKeys == {Acme, Beta}
AskedKeys == {Acme, Beta, constructor}

StoreWorkspace == \E urlKey \in WorkspaceKeys : storeWorkspace(urlKey, LoginTokens)
SetActiveWorkspace == \E urlKey \in AskedKeys : setActiveWorkspace(urlKey)
RemoveWorkspace == \E urlKey \in AskedKeys : removeWorkspace(urlKey)
RemoveWorkspaceResume ==
    \E k \in 1..MaxPending, order \in KeyOrders : removeWorkspace_resume(k, order)
RefreshWorkspaceToken == \E urlKey \in AskedKeys : refreshWorkspaceToken(urlKey)
RefreshWorkspaceTokenResume ==
    \E k \in 1..MaxPending, rejected \in BOOLEAN :
        refreshWorkspaceToken_resume(k, rejected, NewTokens)

NextCreds ==
    \/ StoreWorkspace
    \/ SetActiveWorkspace
    \/ clearAllCredentials
    \/ RemoveWorkspace
    \/ RemoveWorkspaceResume
    \/ RefreshWorkspaceToken
    \/ RefreshWorkspaceTokenResume

SpecCreds == Init /\ [][NextCreds]_vars

\* the active workspace is null or a key of the store, and null only when
\* the store is empty
ActiveIsStored(credentials) ==
    /\ \/ credentials.activeWorkspace = Null
       \/ credentials.activeWorkspace \in DOMAIN credentials.workspaces
    /\ credentials.activeWorkspace = Null => DOMAIN credentials.workspaces = {}

\* C35: after any sequence of storeWorkspace, removeWorkspace,
\* setActiveWorkspace and clearAllCredentials the stored activeWorkspace is
\* null or the key of a workspace in the store, and null only when the store
\* holds no workspace.
C35_ActiveWorkspaceIsStored == ActiveIsStored(loadCredentials)

\* C35: setActiveWorkspace has just answered true for a key the store does
\* not hold, and the store names it as the active workspace.
C35_Witness ==
    /\ args = [fn |-> "setActiveWorkspace", urlKey |-> constructor]
    /\ ret = [done |-> TRUE, value |-> TRUE]
    /\ credentialsFile.activeWorkspace = constructor
    /\ DOMAIN credentialsFile.workspaces = {Acme, Beta}

\* C36: when removeWorkspace or refreshWorkspaceToken completes and saves,
\* every other workspace that was in the store is still there unchanged, and
\* the active workspace is the same unless it is the one removed.
C36_SaveKeepsOtherUpdates ==
    [][/\ args'.fn \in {"removeWorkspace_resume", "refreshWorkspaceToken_resume"}
       /\ credentialsFile' # credentialsFile
       => LET before == loadCredentials
              after == credentialsFile'
          IN  /\ \A w \in DOMAIN before.workspaces \ {args'.urlKey} :
                     /\ w \in DOMAIN after.workspaces
                     /\ after.workspaces[w] = before.workspaces[w]
              /\ \/ after.activeWorkspace = before.activeWorkspace
                 \/ /\ args'.fn = "removeWorkspace_resume"
                    /\ before.activeWorkspace = args'.urlKey]_vars

\* C36: refreshWorkspaceToken of one workspace has just completed and saved,
\* and the other workspace, which was in the store when it completed, is gone.
C36_Witness ==
    /\ args.fn = "refreshWorkspaceToken_resume"
    /\ args.urlKey = Acme
    /\ ~args.rejected
    /\ Beta \in DOMAIN args.before.workspaces
    /\ credentialsFile # NoFile
    /\ Beta \notin DOMAIN credentialsFile.workspaces

====
